---------------------------- MODULE Spec2Model ----------------------------
(***************************************************************************)
(* A model of rodi, a dependency-injection container.                      *)
(*                                                                         *)
(* The container (rodi/container.py) accumulates registrations and         *)
(* aliases; build_provider compiles them, depth first, into a provider     *)
(* (rodi/services.py) that maps keys to producers (rodi/providers/*.py);   *)
(* producers are activated with an activation scope                        *)
(* (rodi/activation_scope.py).                                             *)
(*                                                                         *)
(* Python objects that have identity (instances, producers, providers,     *)
(* scopes) live in heaps: sequences indexed by an object id, 0 being None. *)
(* Class names and parameter names are sequences of one-character strings, *)
(* so that the name conversions are computed, not assumed.                 *)
(***************************************************************************)
EXTENDS Integers, Sequences, FiniteSets, TLC

(***************************************************************************)
(* Bounds of the model.                                                    *)
(***************************************************************************)
MaxRegs == 3        \* registrations made on one container
MaxGets == 2        \* activations recorded in one behaviour
MaxScopes == 1      \* activation scopes created by the caller
MaxProviders == 1   \* providers built from one container
MaxHeap == 8        \* instances alive in one behaviour
MaxRebuilds == 2    \* providers built from a container that is rebuilt
MaxThreads == 2     \* threads that activate a key at the same time

None == 0

\* the value `...`, the default of the parameter `default` of Services.get
Ellipsis == -1

(***************************************************************************)
(* Strings.                                                                *)
(***************************************************************************)
ToLower ==
    [A |-> "a", B |-> "b", C |-> "c", D |-> "d", E |-> "e", G |-> "g", H |-> "h",
     I |-> "i", J |-> "j", K |-> "k", N |-> "n", O |-> "o", P |-> "p",
     R |-> "r",
     T |-> "t", U |-> "u", W |-> "w", X |-> "x", Y |-> "y"]

IsUpper(ch) == ch \in DOMAIN ToLower

IsLower(ch) == ch \in {ToLower[u] : u \in DOMAIN ToLower}

\* str.lower()
lower(s) == [i \in 1..Len(s) |-> IF IsUpper(s[i]) THEN ToLower[s[i]] ELSE s[i]]

\* the end of the longest run of lower-case characters that starts at j
RECURSIVE LowerRunEnd(_, _)
LowerRunEnd(s, j) ==
    IF j + 1 <= Len(s) /\ IsLower(s[j + 1]) THEN LowerRunEnd(s, j + 1) ELSE j

\* first_cap_re.sub(r"\1_\2", s) with first_cap_re = "(.)([A-Z][a-z]+)",
\* scanning from position i
RECURSIVE FirstCapSub(_, _)
FirstCapSub(s, i) ==
    IF i > Len(s) THEN <<>>
    ELSE IF i + 2 <= Len(s) /\ IsUpper(s[i + 1]) /\ IsLower(s[i + 2])
         THEN LET j == LowerRunEnd(s, i + 2)
              IN  <<s[i], "_">> \o SubSeq(s, i + 1, j) \o FirstCapSub(s, j + 1)
         ELSE <<s[i]>> \o FirstCapSub(s, i + 1)

\* all_cap_re.sub(r"\1_\2", s) with all_cap_re = "([a-z0-9])([A-Z])"
RECURSIVE AllCapSub(_, _)
AllCapSub(s, i) ==
    IF i > Len(s) THEN <<>>
    ELSE IF i + 1 <= Len(s) /\ IsLower(s[i]) /\ IsUpper(s[i + 1])
         THEN <<s[i], "_", s[i + 1]>> \o AllCapSub(s, i + 2)
         ELSE <<s[i]>> \o AllCapSub(s, i + 1)

to_standard_param_name(name) ==
    LET value == lower(AllCapSub(FirstCapSub(name, 1), 1))
    IN  IF Len(value) >= 2 /\ value[1] = "i" /\ value[2] = "_"
        THEN <<"i">> \o SubSeq(value, 3, Len(value))
        ELSE value

(***************************************************************************)
(* The classes of the host application: what inspect.Signature and         *)
(* typing.get_type_hints report for each class.  ctor is "init" for a      *)
(* class that defines __init__ and "object" for one that inherits          *)
(* object.__init__ (its class-level annotations are its dependencies).     *)
(* A parameter's annotation is a class, Empty (no annotation) or Union     *)
(* (Optional[...] / Union[...]).  falsy tells whether bool(instance) is    *)
(* False (the class defines __len__ or __bool__).                          *)
(***************************************************************************)
Empty == "_empty"
Union == "Union"

Param(n, a) == [name |-> n, annotation |-> a]

\* a function that the application has a provider execute: its parameters,
\* whether it raises, whether @inject() decorated it and whether it is a
\* coroutine function
Method(params, raises) ==
    [params |-> params, raises |-> raises, injected |-> TRUE, coroutine |-> FALSE]

\* a function that @inject() did not decorate
NotInjected(params) ==
    [params |-> params, raises |-> FALSE, injected |-> FALSE, coroutine |-> FALSE]

\* a coroutine function, which suspends once before it returns or raises
AsyncMethod(params, raises) ==
    [params |-> params, raises |-> raises, injected |-> TRUE, coroutine |-> TRUE]

Class(n, ct, ps, fl, ab, bs) ==
    [name |-> n, ctor |-> ct, params |-> ps, falsy |-> fl, abstract |-> ab,
     bases |-> bs]

ClassTable ==
    [A  |-> Class(<<"A">>, "init", <<>>, FALSE, FALSE, {"IA"}),
     IA |-> Class(<<"I", "A">>, "object", <<>>, FALSE, TRUE, {}),
     B  |-> Class(<<"B">>, "init", <<Param(<<"a">>, "A")>>, FALSE, FALSE, {}),
     C  |-> Class(<<"C">>, "init",
                  <<Param(<<"a">>, "A"), Param(<<"b">>, "B")>>,
                  FALSE, FALSE, {}),
     D  |-> Class(<<"D">>, "init", <<Param(<<"a">>, "IA")>>, FALSE, FALSE, {}),
     E  |-> Class(<<"E">>, "init", <<>>, TRUE, FALSE, {}),
     H  |-> Class(<<"H">>, "object", <<Param(<<"a">>, "A")>>, FALSE, FALSE, {}),
     N  |-> Class(<<"N">>, "object", <<>>, FALSE, FALSE, {}),
     R  |-> Class(<<"R">>, "init", <<Param(<<"a">>, Empty)>>, FALSE, FALSE, {}),
     O  |-> Class(<<"O">>, "init", <<Param(<<"a">>, Union)>>, FALSE, FALSE, {}),
     P  |-> Class(<<"P">>, "init", <<Param(<<"e">>, "A")>>, FALSE, FALSE, {}),
     K  |-> Class(<<"K">>, "init", <<Param(<<"k">>, "K")>>, FALSE, FALSE, {}),
     J  |-> Class(<<"J">>, "init", <<Param(<<"g">>, "G")>>, FALSE, FALSE, {}),
     G  |-> Class(<<"G">>, "init", <<Param(<<"j">>, "J")>>, FALSE, FALSE, {}),
     T  |-> Class(<<"T">>, "init", <<Param(<<"j">>, "J")>>, FALSE, FALSE, {}),
     U  |-> Class(<<"U">>, "init", <<Param(<<"h">>, "H")>>, FALSE, FALSE, {}),
     W  |-> Class(<<"W">>, "init", <<Param(<<"x">>, Empty)>>, FALSE, FALSE, {}),
     X  |-> Class(<<"X">>, "init", <<Param(<<"y">>, Empty)>>, FALSE, FALSE, {}),
     Y  |-> Class(<<"Y">>, "init", <<Param(<<"w">>, Empty)>>, FALSE, FALSE, {})]

Classes == DOMAIN ClassTable

\* rodi.utils.class_name: the __name__ of a class
class_name(t) == ClassTable[t].name

issubclass(c, b) == c = b \/ b \in ClassTable[c].bases

TRANSIENT == "TRANSIENT"
SCOPED == "SCOPED"
SINGLETON == "SINGLETON"
ServiceLifeStyle == {TRANSIENT, SCOPED, SINGLETON}


(***************************************************************************)
(* State.                                                                  *)
(***************************************************************************)
VARIABLES
    world,          \* the registration calls the composition root may make
    strict,         \* Container.strict
    cmap,           \* Container._map: the registrations, in insertion order
    aliases,        \* Container._aliases: name -> set of types, in insertion order
    exact_aliases,  \* Container._exact_aliases: name -> type, in insertion order
    cprovider,      \* Container._provider: the lazily built provider, or None
    heap,           \* the instances: id -> [cls, fields, act]
    producers,      \* the producer objects: id -> producer
    providers,      \* the Services objects: id -> [types, names]
    scopes,         \* the ActivationScope objects made by the caller
    gets,           \* the activations made so far, with what each returned
    outcome         \* how the last call ended

vars == <<world, strict, cmap, aliases, exact_aliases, cprovider, heap,
          producers, providers, scopes, gets, outcome>>

container == <<strict, cmap, aliases, exact_aliases, cprovider>>

(***************************************************************************)
(* Dictionaries.  An ordered dict is a sequence of [key, value] items.     *)
(***************************************************************************)
Keys(d) == {d[i].key : i \in 1..Len(d)}

Has(d, k) == \E i \in 1..Len(d) : d[i].key = k

Lookup(d, k) == d[CHOOSE i \in 1..Len(d) : d[i].key = k].value

Put(d, k, v) ==
    IF Has(d, k)
    THEN [i \in 1..Len(d) |-> IF d[i].key = k THEN [key |-> k, value |-> v] ELSE d[i]]
    ELSE Append(d, [key |-> k, value |-> v])

\* defaultdict(set)[name].add(t)
AddToSet(d, name, t) ==
    Put(d, name, (IF Has(d, name) THEN Lookup(d, name) ELSE {}) \cup {t})

\* a plain dict whose order is never observed: a function
DictSet(f, k, v) == [x \in DOMAIN f \cup {k} |-> IF x = k THEN v ELSE f[x]]

EmptyDict == [x \in {} |-> None]

(***************************************************************************)
(* How a call ended: exc is "" on a normal return and the name of the      *)
(* exception otherwise; param and type are the exception's arguments; ret  *)
(* is the object the call returned, None when it raised.                   *)
(***************************************************************************)
Ok(op) == [op |-> op, exc |-> "", param |-> <<>>, type |-> "", ret |-> None]

Raised(op, exc, p, t) ==
    [op |-> op, exc |-> exc, param |-> p, type |-> t, ret |-> None]

(***************************************************************************)
(* Registration.                                                           *)
(***************************************************************************)
DynamicResolver(concrete_type, life_style) ==
    [kind |-> "DynamicResolver", concrete_type |-> concrete_type,
     life_style |-> life_style, arity |-> 0, yields |-> "", instance |-> None]

\* arity is the number of parameters the wrapped factory was declared with,
\* yields is what the user's factory returns: "new" (a new instance of the
\* type, built with None for every argument) or "none" (None).
FactoryResolver(concrete_type, arity, yields, life_style) ==
    [kind |-> "FactoryResolver", concrete_type |-> concrete_type,
     life_style |-> life_style, arity |-> arity, yields |-> yields,
     instance |-> None]

InstanceResolver(cls, instance) ==
    [kind |-> "InstanceResolver", concrete_type |-> cls,
     life_style |-> SINGLETON, arity |-> 0, yields |-> "", instance |-> instance]

\* a binding that adds the names of the key also in a strict container
BindNaming(key, value) ==
    /\ cmap' = Append(cmap, [key |-> key, value |-> value])
    /\ cprovider' = None
    /\ LET key_name == class_name(key)
       IN  aliases' =
               AddToSet(AddToSet(AddToSet(aliases, key_name, key),
                                 lower(key_name), key),
                        to_standard_param_name(key_name), key)
    /\ UNCHANGED <<strict, exact_aliases>>

\* Container._bind, after the check that the key is free
bind(key, value) ==
    /\ cmap' = Append(cmap, [key |-> key, value |-> value])
    /\ cprovider' = None
    /\ LET key_name == class_name(key)
       IN  IF strict \/ "." \in {key_name[i] : i \in 1..Len(key_name)}
           THEN aliases' = aliases
           ELSE aliases' =
                    AddToSet(AddToSet(AddToSet(aliases, key_name, key),
                                      lower(key_name), key),
                             to_standard_param_name(key_name), key)
    /\ UNCHANGED <<strict, exact_aliases>>

\* a _bind that leaves the provider of the container in place
BindKeepingProvider(op, key, value) ==
    IF Has(cmap, key)
    THEN /\ outcome' = Raised(op, "OverridingServiceException", <<>>, key)
         /\ UNCHANGED container
    ELSE /\ cmap' = Append(cmap, [key |-> key, value |-> value])
         /\ LET key_name == class_name(key)
            IN  IF strict \/ "." \in {key_name[i] : i \in 1..Len(key_name)}
                THEN aliases' = aliases
                ELSE aliases' =
                         AddToSet(AddToSet(AddToSet(aliases, key_name, key),
                                           lower(key_name), key),
                                  to_standard_param_name(key_name), key)
         /\ outcome' = Ok(op)
         /\ UNCHANGED <<strict, exact_aliases, cprovider>>

\* a _bind that stores the value without looking for the key
BindUnchecked(op, key, value) ==
    /\ bind(key, value)
    /\ outcome' = Ok(op)

\* Container._bind
_bind(op, key, value) ==
    IF Has(cmap, key)
    THEN /\ outcome' = Raised(op, "OverridingServiceException", <<>>, key)
         /\ UNCHANGED container
    ELSE /\ bind(key, value)
         /\ outcome' = Ok(op)

\* the second argument of a producer call: the class t, the string name (an
\* object of the class str), or none
TypeArg(t) == [type |-> t, str |-> <<>>]

StrArg(name) == [type |-> "str", str |-> name]

NoArg == [type |-> "", str |-> <<>>]

\* a new instance of cls whose arguments / fields are `fields`; act is what
\* a two-parameter factory received as the activating type: act is the
\* type, or "str" with the string in str.  by is not a field of the code:
\* it records the producer that made the instance (None: the caller)
NewInstance(cls, fields, act, by) ==
    [cls |-> cls, fields |-> fields, act |-> act.type, str |-> act.str, by |-> by]

NoneFields(cls) == [i \in 1..Len(ClassTable[cls].params) |-> None]

\* an assert of a registration call fails: the call raises AssertionError
\* before it binds anything
AssertionFails(op, key) ==
    /\ outcome' = Raised(op, "AssertionError", <<>>, key)
    /\ UNCHANGED container

\* Container._add_exact_transient / _add_exact_scoped / _add_exact_singleton:
\* `assert not isabstract(concrete_type)`, then _bind
AddExact(call) ==
    /\ call.op = "add_exact"
    /\ IF ClassTable[call.concrete_type].abstract
       THEN AssertionFails("add_exact", call.concrete_type)
       ELSE _bind("add_exact", call.concrete_type,
                  DynamicResolver(call.concrete_type, call.life_style))
    /\ UNCHANGED <<world, heap, producers, providers, scopes, gets>>

\* Container.bind_types, reached from add_transient / add_scoped /
\* add_singleton with a base type and a concrete type:
\* `assert issubclass(concrete_type, obj_type)`, then DynamicResolver.__init__
\* with its `assert not isabstract(concrete_type)`, then _bind
BindTypes(call) ==
    /\ call.op = "bind_types"
    /\ IF \/ ~issubclass(call.concrete_type, call.key)
          \/ ClassTable[call.concrete_type].abstract
       THEN AssertionFails("bind_types", call.key)
       ELSE _bind("bind_types", call.key,
                  DynamicResolver(call.concrete_type, call.life_style))
    /\ UNCHANGED <<world, heap, producers, providers, scopes, gets>>

\* Container.add_instance: the caller constructs the instance and hands it over
AddInstance(call) ==
    /\ call.op = "add_instance"
    /\ Len(heap) < MaxHeap
    /\ heap' = Append(heap, NewInstance(call.concrete_type,
                                        NoneFields(call.concrete_type), NoArg, None))
    /\ _bind("add_instance", call.key,
             InstanceResolver(call.concrete_type, Len(heap) + 1))
    /\ UNCHANGED <<world, producers, providers, scopes, gets>>

\* a register_factory that binds the return type before it looks at the
\* parameters of the factory
RegisterFactoryBindingFirst(call) ==
    /\ call.op = "register_factory"
    /\ IF call.key = ""
       THEN /\ outcome' = Raised("register_factory", "MissingTypeException", <<>>, "")
            /\ UNCHANGED container
       ELSE IF Has(cmap, call.key)
       THEN /\ outcome' = Raised("register_factory", "OverridingServiceException",
                                 <<>>, call.key)
            /\ UNCHANGED container
       ELSE /\ bind(call.key,
                    FactoryResolver(call.key, call.arity, call.yields, call.life_style))
            /\ outcome' = IF call.arity > 2
                          THEN Raised("register_factory", "InvalidFactory", <<>>, call.key)
                          ELSE Ok("register_factory")
    /\ UNCHANGED <<world, heap, producers, providers, scopes, gets>>

\* Container.register_factory, reached from add_*_by_factory.  The key of
\* the call is the return type, given or annotated ("": neither); the arity
\* is the number of parameters of the factory
RegisterFactory(call) ==
    /\ call.op = "register_factory"
    /\ IF call.key = ""
       THEN /\ outcome' = Raised("register_factory", "MissingTypeException", <<>>, "")
            /\ UNCHANGED container
       ELSE IF call.arity > 2
       THEN /\ outcome' = Raised("register_factory", "InvalidFactory", <<>>, call.key)
            /\ UNCHANGED container
       ELSE _bind("register_factory", call.key,
                  FactoryResolver(call.key, call.arity, call.yields, call.life_style))
    /\ UNCHANGED <<world, heap, producers, providers, scopes, gets>>

\* an add_alias that looks for the name in the inferred aliases only
AddAliasOverExact(call) ==
    /\ call.op = "add_alias"
    /\ IF strict
       THEN /\ outcome' = Raised("add_alias", "InvalidOperationInStrictMode",
                                 call.name, call.key)
            /\ UNCHANGED container
       ELSE IF Has(aliases, call.name)
       THEN /\ outcome' = Raised("add_alias", "AliasAlreadyDefined",
                                 call.name, call.key)
            /\ UNCHANGED container
       ELSE /\ aliases' = AddToSet(aliases, call.name, call.key)
            /\ outcome' = Ok("add_alias")
            /\ UNCHANGED <<strict, cmap, exact_aliases, cprovider>>
    /\ UNCHANGED <<world, heap, producers, providers, scopes, gets>>

\* Container.add_alias
AddAlias(call) ==
    /\ call.op = "add_alias"
    /\ IF strict
       THEN /\ outcome' = Raised("add_alias", "InvalidOperationInStrictMode",
                                 call.name, call.key)
            /\ UNCHANGED container
       ELSE IF Has(aliases, call.name) \/ Has(exact_aliases, call.name)
       THEN /\ outcome' = Raised("add_alias", "AliasAlreadyDefined",
                                 call.name, call.key)
            /\ UNCHANGED container
       ELSE /\ aliases' = AddToSet(aliases, call.name, call.key)
            /\ outcome' = Ok("add_alias")
            /\ UNCHANGED <<strict, cmap, exact_aliases, cprovider>>
    /\ UNCHANGED <<world, heap, producers, providers, scopes, gets>>

\* a set_alias that replaces the target whatever `override` is
SetAliasOverriding(call) ==
    /\ call.op = "set_alias"
    /\ IF strict
       THEN /\ outcome' = Raised("set_alias", "InvalidOperationInStrictMode",
                                 call.name, call.key)
            /\ UNCHANGED container
       ELSE /\ exact_aliases' = Put(exact_aliases, call.name, call.key)
            /\ outcome' = Ok("set_alias")
            /\ UNCHANGED <<strict, cmap, aliases, cprovider>>
    /\ UNCHANGED <<world, heap, producers, providers, scopes, gets>>

\* Container.set_alias
SetAlias(call) ==
    /\ call.op = "set_alias"
    /\ IF strict
       THEN /\ outcome' = Raised("set_alias", "InvalidOperationInStrictMode",
                                 call.name, call.key)
            /\ UNCHANGED container
       ELSE IF ~call.override /\ Has(exact_aliases, call.name)
       THEN /\ outcome' = Raised("set_alias", "AliasAlreadyDefined",
                                 call.name, call.key)
            /\ UNCHANGED container
       ELSE /\ exact_aliases' = Put(exact_aliases, call.name, call.key)
            /\ outcome' = Ok("set_alias")
            /\ UNCHANGED <<strict, cmap, aliases, cprovider>>
    /\ UNCHANGED <<world, heap, producers, providers, scopes, gets>>

(***************************************************************************)
(* Producers (rodi/providers): the objects a build compiles.  type is      *)
(* self._type, args is self._args_callbacks (ids of producers), instance   *)
(* is the cell of a singleton producer or the instance of an               *)
(* InstanceProvider, factory describes self.factory.                       *)
(***************************************************************************)
NoFactory == [fkind |-> "", arity |-> 0, yields |-> ""]

\* a factory given by the user, wrapped by Container._check_factory
UserFactory(arity, yields) == [fkind |-> "user", arity |-> arity, yields |-> yields]

\* rodi.utils._get_plain_class_factory
PlainClassFactory == [fkind |-> "plain", arity |-> 0, yields |-> "new"]

\* the closure made by rodi.utils.get_annotations_type_provider
AnnotationsFactory == [fkind |-> "annotations", arity |-> 2, yields |-> "new"]

\* made counts the times a singleton producer constructed its instance (it is
\* not a field of the code: it records the calls of the constructor or factory)
Producer(kind, type, args, instance, factory) ==
    [kind |-> kind, type |-> type, args |-> args, instance |-> instance,
     factory |-> factory, made |-> 0]

(***************************************************************************)
(* ResolutionContext: resolved and dynamic_chain; prods is the producer    *)
(* heap and aliases is Container._aliases, both threaded through the pass. *)
(* A resolver call returns [ctx, ret, exc].                                *)
(***************************************************************************)
Return(ctx, pid) == [ctx |-> ctx, ret |-> pid, exc |-> Ok("build_provider")]

Raise(ctx, exc, p, t) ==
    [ctx |-> ctx, ret |-> None, exc |-> Raised("build_provider", exc, p, t)]

\* allocate a producer object
Emit(ctx, producer) ==
    Return([ctx EXCEPT !.prods = Append(@, producer)], Len(ctx.prods) + 1)

\* The depth of nested DynamicResolver calls at which the interpreter raises
\* RecursionError.  The interpreter's limit exceeds every chain of distinct
\* registered keys; so does this one, a container holding at most MaxRegs keys.
RecursionLimit == MaxRegs + 1

\* FactoryResolver.__call__
FactoryResolverCall(concrete_type, factory, life_style, args, ctx) ==
    Emit(ctx,
         Producer(CASE life_style = SINGLETON -> "SingletonFactoryTypeProvider"
                    [] life_style = SCOPED -> "ScopedFactoryTypeProvider"
                    [] OTHER -> "FactoryTypeProvider",
                  concrete_type, args, None, factory))

\* InstanceResolver.__call__
InstanceResolverCall(r, ctx) ==
    Emit(ctx, Producer("InstanceProvider", r.concrete_type, <<>>, r.instance, NoFactory))

\* the part of DynamicResolver._get_resolvers_for_parameters that turns a
\* parameter into the type to resolve: [ctx, type, exc]
\* a lookup that takes any one of several candidates of a name
ParamTypeAnyCandidate(concrete_type, param, ctx) ==
    IF param.annotation = Union
    THEN [ctx |-> ctx, type |-> "",
          exc |-> "UnsupportedUnionTypeException"]
    ELSE IF param.annotation # Empty
    THEN [ctx |-> ctx, type |-> param.annotation, exc |-> ""]
    ELSE IF strict
    THEN [ctx |-> ctx, type |-> "", exc |-> "CannotResolveParameterException"]
    ELSE IF Has(exact_aliases, param.name)
    THEN [ctx |-> ctx, type |-> Lookup(exact_aliases, param.name), exc |-> ""]
    ELSE IF Has(ctx.aliases, param.name) /\ Lookup(ctx.aliases, param.name) # {}
    THEN [ctx |-> ctx, type |-> CHOOSE t \in Lookup(ctx.aliases, param.name) : TRUE,
          exc |-> ""]
    ELSE [ctx |-> [ctx EXCEPT !.aliases = Put(@, param.name, {})],
          type |-> Empty, exc |-> ""]

\* a lookup that asks the alias tables for the name of the parameter before
\* it reads the declared type
ParamTypeByNameFirst(concrete_type, param, ctx) ==
    IF param.annotation = Union
    THEN [ctx |-> ctx, type |-> "",
          exc |-> "UnsupportedUnionTypeException"]
    ELSE IF ~strict /\ Has(exact_aliases, param.name)
    THEN [ctx |-> ctx, type |-> Lookup(exact_aliases, param.name), exc |-> ""]
    ELSE IF ~strict /\ Has(ctx.aliases, param.name)
            /\ Cardinality(Lookup(ctx.aliases, param.name)) = 1
    THEN [ctx |-> ctx, type |-> CHOOSE t \in Lookup(ctx.aliases, param.name) : TRUE,
          exc |-> ""]
    ELSE IF param.annotation # Empty
    THEN [ctx |-> ctx, type |-> param.annotation, exc |-> ""]
    ELSE IF strict
    THEN [ctx |-> ctx, type |-> "", exc |-> "CannotResolveParameterException"]
    ELSE [ctx |-> ctx, type |-> Empty, exc |-> ""]

ParamType(concrete_type, param, ctx) ==
    IF param.annotation = Union
    THEN [ctx |-> ctx, type |-> "",
          exc |-> "UnsupportedUnionTypeException"]
    ELSE IF param.annotation # Empty
    THEN [ctx |-> ctx, type |-> param.annotation, exc |-> ""]
    ELSE IF strict
    THEN [ctx |-> ctx, type |-> "", exc |-> "CannotResolveParameterException"]
    ELSE IF Has(exact_aliases, param.name)
    THEN [ctx |-> ctx, type |-> Lookup(exact_aliases, param.name), exc |-> ""]
    ELSE LET found == IF Has(ctx.aliases, param.name)
                      THEN Lookup(ctx.aliases, param.name) ELSE {}
             \* reading a defaultdict inserts the missing key
             ctx1 == [ctx EXCEPT !.aliases = Put(@, param.name, found)]
         IN  IF found = {}
             THEN [ctx |-> ctx1, type |-> Empty, exc |-> ""]
             ELSE IF Cardinality(found) # 1
             THEN [ctx |-> ctx1, type |-> "", exc |-> "AssertionError"]
             ELSE [ctx |-> ctx1, type |-> CHOOSE t \in found : TRUE, exc |-> ""]

RECURSIVE ResolverCall(_, _, _)
RECURSIVE GetResolversForParameters(_, _, _, _, _, _)

\* a _get_resolver that knows the keys compiled so far only
GetResolverCompiled(desired_type, ctx, depth) ==
    IF desired_type \in DOMAIN ctx.resolved
    THEN Return(ctx, ctx.resolved[desired_type])
    ELSE Raise(ctx, "AssertionError", <<>>, desired_type)

\* DynamicResolver._get_resolver
GetResolver(desired_type, ctx, depth) ==
    IF desired_type \in DOMAIN ctx.resolved
    THEN Return(ctx, ctx.resolved[desired_type])
    ELSE ResolverCall(Lookup(cmap, desired_type), ctx, depth)

\* fns.append(self._get_resolver(param_type, context)), r being what
\* _get_resolver returned or raised, and the rest of the loop
AppendResolver(concrete_type, params, i, fns, depth, r) ==
    IF r.exc.exc # ""
    THEN r
    ELSE GetResolversForParameters(concrete_type, r.ctx, params, i + 1,
                                   Append(fns, r.ret), depth)

\* a loop body that reports the missing key in place of the dependent
ResolveParameterNamingKey(concrete_type, params, i, fns, depth, pt) ==
    IF pt.exc # ""
    THEN Raise(pt.ctx, pt.exc, params[i].name, concrete_type)
    ELSE IF ~Has(cmap, pt.type)
    THEN Raise(pt.ctx, "CannotResolveParameterException", params[i].name, pt.type)
    ELSE AppendResolver(concrete_type, params, i, fns, depth,
                        GetResolver(pt.type, pt.ctx, depth))

\* the body of the loop for the i-th parameter, pt being its type
ResolveParameter(concrete_type, params, i, fns, depth, pt) ==
    IF pt.exc # ""
    THEN Raise(pt.ctx, pt.exc, params[i].name, concrete_type)
    ELSE IF ~Has(cmap, pt.type)
    THEN Raise(pt.ctx, "CannotResolveParameterException",
               params[i].name, concrete_type)
    ELSE AppendResolver(concrete_type, params, i, fns, depth,
                        GetResolver(pt.type, pt.ctx, depth))

\* DynamicResolver._get_resolvers_for_parameters, from the i-th parameter on;
\* ret is the list fns
GetResolversForParameters(concrete_type, ctx, params, i, fns, depth) ==
    IF i > Len(params)
    THEN Return(ctx, fns)
    ELSE ResolveParameter(concrete_type, params, i, fns, depth,
                          ParamType(concrete_type, params[i], ctx))

\* the end of DynamicResolver._resolve_by_init_method: the provider of a type
\* with parameters, fns being what _get_resolvers_for_parameters returned
ArgsProvider(r, fns) ==
    IF fns.exc.exc # ""
    THEN fns
    ELSE Emit(fns.ctx,
              Producer(CASE r.life_style = SINGLETON -> "SingletonTypeProvider"
                         [] r.life_style = SCOPED -> "ScopedArgsTypeProvider"
                         [] OTHER -> "ArgsTypeProvider",
                       r.concrete_type, fns.ret, None, NoFactory))

\* DynamicResolver._resolve_by_init_method
ResolveByInitMethod(r, ctx, depth) ==
    IF ClassTable[r.concrete_type].params = <<>>
    THEN Emit(ctx,
              Producer(CASE r.life_style = SINGLETON -> "SingletonTypeProvider"
                         [] r.life_style = SCOPED -> "ScopedTypeProvider"
                         [] OTHER -> "TypeProvider",
                       r.concrete_type, <<>>, None, NoFactory))
    ELSE ArgsProvider(r, GetResolversForParameters(
                             r.concrete_type, ctx,
                             ClassTable[r.concrete_type].params, 1, <<>>, depth))

\* the end of DynamicResolver._resolve_by_annotations
AnnotationsProvider(r, fns) ==
    IF fns.exc.exc # ""
    THEN fns
    ELSE FactoryResolverCall(r.concrete_type, AnnotationsFactory, r.life_style,
                             fns.ret, fns.ctx)

\* DynamicResolver._resolve_by_annotations and get_annotations_type_provider
ResolveByAnnotations(r, ctx, depth) ==
    AnnotationsProvider(r, GetResolversForParameters(
                               r.concrete_type, ctx,
                               ClassTable[r.concrete_type].params, 1, <<>>, depth))

\* a call that lets the RecursionError through
PassRecursionError(res) == res

\* `except RecursionError: raise CircularDependencyException(chain[0], ...)`
ExceptRecursionError(res) ==
    IF res.exc.exc = "RecursionError"
    THEN Raise(res.ctx, "CircularDependencyException", <<>>, res.ctx.chain[1])
    ELSE res

\* the body of the try block of DynamicResolver.__call__, the chain extended
ResolveDynamic(r, ctx, depth) ==
    IF ClassTable[r.concrete_type].ctor = "object"
    THEN IF ClassTable[r.concrete_type].params # <<>>
         THEN ResolveByAnnotations(r, ctx, depth)
         ELSE FactoryResolverCall(r.concrete_type, PlainClassFactory,
                                  r.life_style, <<>>, ctx)
    ELSE ResolveByInitMethod(r, ctx, depth)

\* DynamicResolver.__call__
DynamicResolverCall(r, ctx, depth) ==
    IF depth >= RecursionLimit
    THEN Raise(ctx, "RecursionError", <<>>, "")
    ELSE ExceptRecursionError(
             ResolveDynamic(r, [ctx EXCEPT !.chain = Append(@, r.concrete_type)],
                            depth + 1))

\* a call that compiles every registration from the constructor of its type
ResolverCallByConstructor(r, ctx, depth) == DynamicResolverCall(r, ctx, depth)

\* resolver(context), for the three kinds of resolver
ResolverCall(r, ctx, depth) ==
    CASE r.kind = "DynamicResolver" -> DynamicResolverCall(r, ctx, depth)
      [] r.kind = "FactoryResolver" ->
            FactoryResolverCall(r.concrete_type, UserFactory(r.arity, r.yields),
                                r.life_style, <<>>, ctx)
      [] OTHER -> InstanceResolverCall(r, ctx)

(***************************************************************************)
(* Container.build_provider.                                               *)
(***************************************************************************)
HasDot(name) == "." \in {name[i] : i \in 1..Len(name)}

RECURSIVE BuildTypes(_, _, _, _)

\* the end of the loop's body for the i-th registration, res being what its
\* resolver returned or raised, and the rest of the loop
Resolved(i, ctx, types, names, res) ==
    IF cmap[i].key \in DOMAIN ctx.resolved
    THEN [ctx |-> ctx, types |-> types, names |-> names,
          exc |-> Raised("build_provider", "AssertionError", <<>>, cmap[i].key)]
    ELSE IF res.exc.exc # ""
    THEN [ctx |-> res.ctx, types |-> types, names |-> names, exc |-> res.exc]
    ELSE BuildTypes(
             i + 1,
             [res.ctx EXCEPT !.resolved = DictSet(@, cmap[i].key, res.ret)],
             DictSet(types, cmap[i].key, res.ret),
             IF HasDot(class_name(cmap[i].key)) THEN names
             ELSE DictSet(names, class_name(cmap[i].key), res.ret))

\* the loop over self._map.items(), from the i-th registration on:
\* [ctx, types, names, exc], types and names being the entries of the new
\* _map under type keys and under string keys
BuildTypes(i, ctx, types, names) ==
    IF i > Len(cmap)
    THEN [ctx |-> ctx, types |-> types, names |-> names, exc |-> Ok("build_provider")]
    ELSE Resolved(i, ctx, types, names,
                  ResolverCall(cmap[i].value,
                               IF cmap[i].value.kind = "DynamicResolver"
                               THEN [ctx EXCEPT !.chain = <<>>] ELSE ctx,
                               0))

\* `for _type in _types: break` for every item of self._aliases: the sets are
\* iterated in hash order, so any member may come first; an empty set leaves
\* _type as it was ("" stands for: nothing chosen)
RECURSIVE FirstOfEach(_, _)
FirstOfEach(al, i) ==
    IF i > Len(al) THEN {<<>>}
    ELSE {<<t>> \o rest :
            t \in (IF al[i].value = {} THEN {""} ELSE al[i].value),
            rest \in FirstOfEach(al, i + 1)}

\* the loop over self._aliases.items(), from the i-th item on; _type is the
\* loop variable as the previous iteration left it ("" when it is unbound)
RECURSIVE InferredAliases(_, _, _, _, _, _)
InferredAliases(al, first, i, _type, types, names) ==
    IF i > Len(al)
    THEN [names |-> names, exc |-> Ok("build_provider")]
    ELSE LET t == IF first[i] = "" THEN _type ELSE first[i]
         IN  IF t = ""
             THEN [names |-> names,
                   exc |-> Raised("build_provider", "UnboundLocalError", al[i].key, "")]
             ELSE IF t \notin DOMAIN types
             THEN [names |-> names,
                   exc |-> Raised("build_provider", "AliasConfigurationError",
                                  al[i].key, t)]
             ELSE InferredAliases(al, first, i + 1, t, types,
                                  DictSet(names, al[i].key, types[t]))

\* the loop over self._exact_aliases.items(), from the i-th item on
RECURSIVE ExactAliases(_, _, _)
ExactAliases(i, types, names) ==
    IF i > Len(exact_aliases)
    THEN [names |-> names, exc |-> Ok("build_provider")]
    ELSE LET name == exact_aliases[i].key
             _type == exact_aliases[i].value
         IN  IF _type \notin DOMAIN types
             THEN [names |-> names,
                   exc |-> Raised("build_provider", "AliasConfigurationError",
                                  name, _type)]
             ELSE ExactAliases(i + 1, types, DictSet(names, name, types[_type]))

\* the end of build_provider, exact being what the loop over the exact
\* aliases made of the names
WithExactAliases(b, exact) == [b EXCEPT !.names = exact.names, !.exc = exact.exc]

\* the loops over the aliases, b being what the loop over the registrations
\* made and inferred what the loop over the inferred aliases made of the names
WithInferredAliases(b, inferred) ==
    IF inferred.exc.exc # ""
    THEN [b EXCEPT !.exc = inferred.exc]
    ELSE WithExactAliases(b, ExactAliases(1, b.types, inferred.names))

\* `if not self.strict:` and the two loops over the aliases
WithAliases(first, b) ==
    IF b.exc.exc # "" \/ strict
    THEN b
    ELSE WithInferredAliases(
             b, InferredAliases(b.ctx.aliases, first, 1,
                                IF Len(cmap) = 0 THEN "" ELSE cmap[Len(cmap)].key,
                                b.types, b.names))

\* the registrations compiled: the first loop of build_provider
BuiltTypes ==
    BuildTypes(1, [resolved |-> EmptyDict, chain |-> <<>>, prods |-> producers,
                   aliases |-> aliases], EmptyDict, EmptyDict)

\* Container.build_provider, given which member of each alias set the
\* iteration yields first: [ctx, types, names, exc]
build_provider(first) == WithAliases(first, BuiltTypes)

\* Services.__init__
Services(types, names) == [types |-> types, names |-> names]

\* what a call of build_provider leaves behind, b being its result
Built(b) ==
    /\ aliases' = b.ctx.aliases
    /\ IF b.exc.exc = ""
       THEN /\ providers' = Append(providers, Services(b.types, b.names))
            /\ producers' = b.ctx.prods
            /\ outcome' = [b.exc EXCEPT !.ret = Len(providers) + 1]
       ELSE /\ outcome' = b.exc
            /\ UNCHANGED <<providers, producers>>

\* the choices of the first member of every alias set, b being what the
\* first loop made
Firsts(b) == FirstOfEach(b.ctx.aliases, 1)

\* a call of container.build_provider()
BuildProvider ==
    /\ Len(providers) < world.builds
    /\ \E first \in Firsts(BuiltTypes) : Built(build_provider(first))
    /\ UNCHANGED <<world, strict, cmap, exact_aliases, cprovider, heap, scopes, gets>>

(***************************************************************************)
(* Activation.  A producer is called with the scope and the activating     *)
(* type; st is [heap, prods, cache, class], cache being                    *)
(* scope.scoped_services and class the class of the scope: the             *)
(* ActivationScope of rodi/activation_scope.py or the ActivationScope of   *)
(* rodi/services.py.  Services.get and the executors make scopes of the    *)
(* second class, the caller makes scopes of either.  A call returns        *)
(* [st, val, exc].                                                         *)
(***************************************************************************)
\* rodi.activation_scope.ActivationScope
ScopeClass == "rodi.activation_scope.ActivationScope"

\* rodi.services.ActivationScope
ServicesScopeClass == "rodi.services.ActivationScope"

\* the class of the scope that Services.get works with: scope is None,
\* for which Services.get makes a scope of its own module, or one of `scopes`
ClassOf(scope) == IF scope = None THEN ServicesScopeClass ELSE scopes[scope].class

\* bool(value)
Truthy(h, v) == v # None /\ ~ClassTable[h[v].cls].falsy

Value(st, v) == [st |-> st, val |-> v, exc |-> ""]

Throw(st, exc) == [st |-> st, val |-> None, exc |-> exc]

\* a constructor call: the new object is the next cell of the heap
Alloc(st, instance) ==
    Value([st EXCEPT !.heap = Append(@, instance)], Len(st.heap) + 1)

RECURSIVE Call(_, _, _)
RECURSIVE CallAll(_, _, _, _, _)

\* the list comprehension after its i-th call, r being what the call
\* returned or raised
Collect(fns, i, parent_type, vals, r) ==
    IF r.exc # "" THEN r
    ELSE CallAll(fns, i + 1, r.st, parent_type, Append(vals, r.val))

\* [fn(context, parent_type) for fn in fns], from the i-th on
CallAll(fns, i, st, parent_type, vals) ==
    IF i > Len(fns)
    THEN Value(st, vals)
    ELSE Collect(fns, i, parent_type, vals, Call(fns[i], st, parent_type))

\* self._type(*args), a being what the evaluation of the arguments gave
New(pid, p, a) ==
    IF a.exc # "" THEN a
    ELSE Alloc(a.st, NewInstance(p.type, a.val, NoArg, pid))

\* self._type(*[fn(context, self._type) for fn in self._args_callbacks])
Construct(pid, p, st) ==
    New(pid, p, CallAll(p.args, 1, st, TypeArg(p.type), <<>>))

\* `for name, resolver in resolvers.items(): setattr(instance, name, ...)` of
\* get_annotations_type_provider.factory, a being what the resolvers gave
SetAttrs(instance, a) ==
    IF a.exc # "" THEN a
    ELSE Value([a.st EXCEPT !.heap[instance].fields = a.val], instance)

\* get_annotations_type_provider.factory: the instance is made first, then
\* each resolver is called with the parent type as given
AnnotationsFactoryCall(p, made, parent_type) ==
    SetAttrs(made.val, CallAll(p.args, 1, made.st, parent_type, <<>>))

\* self.factory(context, parent_type)
InvokeFactory(pid, p, st, parent_type) ==
    CASE p.factory.fkind = "user" ->
            \* FactoryWrapperNoArgs and FactoryWrapperContextArg drop the
            \* activating type; a factory of two parameters receives it
            IF p.factory.yields = "none"
            THEN Value(st, None)
            ELSE Alloc(st, NewInstance(p.type, NoneFields(p.type),
                                       IF p.factory.arity = 2 THEN parent_type
                                       ELSE NoArg,
                                       pid))
      [] p.factory.fkind = "plain" ->
            Alloc(st, NewInstance(p.type, <<>>, NoArg, pid))
      [] OTHER ->
            AnnotationsFactoryCall(p, Alloc(st, NewInstance(p.type, <<>>, NoArg, pid)),
                                   parent_type)

\* FactoryTypeProvider.__call__: `assert isinstance(context, ActivationScope)`,
\* the class of rodi/activation_scope.py, then the factory
FactoryTypeProviderCall(pid, p, st, parent_type) ==
    IF st.class # ScopeClass
    THEN Throw(st, "AssertionError")
    ELSE InvokeFactory(pid, p, st, parent_type)

\* store the value in the cell of the singleton producer pid
Memo(pid, r) ==
    IF r.exc # "" THEN r
    ELSE [r EXCEPT !.st.prods[pid].instance = r.val,
                   !.st.prods[pid].made = @ + 1]

\* context.scoped_services[self._type] = service
Cache(type, r) ==
    IF r.exc # "" THEN r
    ELSE [r EXCEPT !.st.cache = DictSet(@, type, r.val)]

\* SingletonTypeProvider.__call__
SingletonTypeProviderCall(pid, p, st) ==
    IF ~Truthy(st.heap, p.instance)
    THEN Memo(pid, Construct(pid, p, st))
    ELSE Value(st, p.instance)

\* SingletonFactoryTypeProvider.__call__
SingletonFactoryTypeProviderCall(pid, p, st, parent_type) ==
    IF p.instance = None
    THEN Memo(pid, InvokeFactory(pid, p, st, parent_type))
    ELSE Value(st, p.instance)

\* ScopedTypeProvider.__call__ and ScopedArgsTypeProvider.__call__
ScopedTypeProviderCall(pid, p, st) ==
    IF p.type \in DOMAIN st.cache
    THEN Value(st, st.cache[p.type])
    ELSE Cache(p.type, Construct(pid, p, st))

\* ScopedFactoryTypeProvider.__call__
ScopedFactoryTypeProviderCall(pid, p, st, parent_type) ==
    IF p.type \in DOMAIN st.cache
    THEN Value(st, st.cache[p.type])
    ELSE Cache(p.type, InvokeFactory(pid, p, st, parent_type))

\* producer(context, parent_type); calling None is a TypeError
Call(pid, st, parent_type) ==
    IF pid = None
    THEN Throw(st, "TypeError")
    ELSE LET p == st.prods[pid]
         IN  CASE p.kind \in {"InstanceProvider", "resolver"} ->
                     Value(st, p.instance)
               [] p.kind \in {"TypeProvider", "ArgsTypeProvider"} ->
                     Construct(pid, p, st)
               [] p.kind = "FactoryTypeProvider" ->
                     FactoryTypeProviderCall(pid, p, st, parent_type)
               [] p.kind \in {"ScopedTypeProvider", "ScopedArgsTypeProvider"} ->
                     ScopedTypeProviderCall(pid, p, st)
               [] p.kind = "ScopedFactoryTypeProvider" ->
                     ScopedFactoryTypeProviderCall(pid, p, st, parent_type)
               [] p.kind = "SingletonTypeProvider" ->
                     SingletonTypeProviderCall(pid, p, st)
               [] OTHER -> SingletonFactoryTypeProviderCall(pid, p, st, parent_type)

(***************************************************************************)
(* Activation scopes.  scoped_services is the dict, none tells that the    *)
(* attribute is None instead.  Three fields record the scope's history and *)
(* are not fields of the code: seed is the key the scope was created with  *)
(* a value for, live tells that the scope was not disposed since it was    *)
(* created or entered, uses counts the times dispose discarded its cache.  *)
(* class is the class of the scope, of rodi/activation_scope.py or of      *)
(* rodi/services.py.                                                       *)
(* Two fields tell of the coroutine of async_executor that holds the       *)
(* scope, if one does: method is its function and pc its position, which   *)
(* is "" for a scope that no coroutine holds.                              *)
(***************************************************************************)
\* ActivationScope.__init__: `scoped_services or {}`
ActivationScope(class, provider, scoped_services, seed) ==
    [class |-> class, provider |-> provider, scoped_services |-> scoped_services,
     none |-> FALSE, seed |-> seed, live |-> TRUE, uses |-> 0, pc |-> "",
     method |-> Method(<<>>, FALSE)]

\* the scopes that the application holds and can pass to get and dispose
CallerScopes == {s \in 1..Len(scopes) : scopes[s].pc = ""}

\* ActivationScope.dispose
dispose(scope) ==
    IF scope.none \/ scope.scoped_services = EmptyDict
    THEN [scope EXCEPT !.provider = None, !.live = FALSE]
    ELSE [scope EXCEPT !.provider = None, !.scoped_services = EmptyDict,
                       !.none = TRUE, !.live = FALSE, !.uses = @ + 1]

\* ActivationScope.__enter__
enter(scope) ==
    IF scope.none
    THEN [scope EXCEPT !.scoped_services = EmptyDict, !.none = FALSE, !.live = TRUE]
    ELSE [scope EXCEPT !.live = TRUE]

\* a get that has no use for the default
ServicesGetNoDefault(provider, desired_type, scope, default) ==
    LET ctx == IF scope = None
               THEN ActivationScope(ServicesScopeClass, provider, EmptyDict, "")
               ELSE scopes[scope]
        st == [heap |-> heap, prods |-> producers, cache |-> ctx.scoped_services,
               class |-> ClassOf(scope)]
        _map == providers[provider].types
        resolver == IF desired_type \in DOMAIN _map THEN _map[desired_type] ELSE None
        scoped_service == IF desired_type \in DOMAIN ctx.scoped_services
                          THEN ctx.scoped_services[desired_type] ELSE None
    IN  IF ctx.none
        THEN Throw(st, "AttributeError")
        ELSE IF resolver = None /\ ~Truthy(heap, scoped_service)
        THEN Throw(st, "CannotResolveTypeException")
        ELSE IF Truthy(heap, scoped_service)
        THEN Value(st, scoped_service)
        ELSE Call(resolver, st, TypeArg(desired_type))

\* Services.get for a key that is a type; scope is None or one of `scopes`
ServicesGet(provider, desired_type, scope, default) ==
    LET ctx == IF scope = None
               THEN ActivationScope(ServicesScopeClass, provider, EmptyDict, "")
               ELSE scopes[scope]
        st == [heap |-> heap, prods |-> producers, cache |-> ctx.scoped_services,
               class |-> ClassOf(scope)]
        _map == providers[provider].types
        resolver == IF desired_type \in DOMAIN _map THEN _map[desired_type] ELSE None
        scoped_service == IF desired_type \in DOMAIN ctx.scoped_services
                          THEN ctx.scoped_services[desired_type] ELSE None
    IN  IF ctx.none
        THEN Throw(st, "AttributeError")
        ELSE IF resolver = None /\ ~Truthy(heap, scoped_service)
        THEN IF default # Ellipsis
             THEN Value(st, default)
             ELSE Throw(st, "CannotResolveTypeException")
        ELSE IF Truthy(heap, scoped_service)
        THEN Value(st, scoped_service)
        ELSE Call(resolver, st, TypeArg(desired_type))

\* Services.get(desired_type, scope) with a scope that is passed, given the
\* provider, the cache of the scope and whether the cache is None
ServicesGetIn(services, st, none, desired_type) ==
    LET _map == services.types
        resolver == IF desired_type \in DOMAIN _map THEN _map[desired_type] ELSE None
        scoped_service == IF desired_type \in DOMAIN st.cache
                          THEN st.cache[desired_type] ELSE None
    IN  IF none
        THEN Throw(st, "AttributeError")
        ELSE IF resolver = None /\ ~Truthy(st.heap, scoped_service)
        THEN Throw(st, "CannotResolveTypeException")
        ELSE IF Truthy(st.heap, scoped_service)
        THEN Value(st, scoped_service)
        ELSE Call(resolver, st, TypeArg(desired_type))

\* Services.get(name, scope) with a scope that is passed and is not disposed
ServicesGetByNameIn(services, st, name) ==
    IF name \notin DOMAIN services.names
    THEN Throw(st, "CannotResolveTypeException")
    ELSE Call(services.names[name], st, StrArg(name))

\* Services.get for a key that is a string; the scopes of the model hold
\* no string keys
ServicesGetByName(provider, name, scope, default) ==
    LET ctx == IF scope = None
               THEN ActivationScope(ServicesScopeClass, provider, EmptyDict, "")
               ELSE scopes[scope]
        st == [heap |-> heap, prods |-> producers, cache |-> ctx.scoped_services,
               class |-> ClassOf(scope)]
        _map == providers[provider].names
    IN  IF ctx.none
        THEN Throw(st, "AttributeError")
        ELSE IF name \notin DOMAIN _map
        THEN IF default # Ellipsis
             THEN Value(st, default)
             ELSE Throw(st, "CannotResolveTypeException")
        ELSE Call(_map[name], st, StrArg(name))

(***************************************************************************)
(* The calls of the application.  A world is what one application may do:  *)
(* the registration calls of its composition root, the types and names it  *)
(* asks the provider for, and the types it seeds a scope with.             *)
(***************************************************************************)
Call_(op, key, concrete_type, life_style, arity, yields, name, override) ==
    [op |-> op, key |-> key, concrete_type |-> concrete_type,
     life_style |-> life_style, arity |-> arity, yields |-> yields,
     name |-> name, override |-> override]

\* add_exact_transient(c) / add_exact_scoped(c) / add_exact_singleton(c)
Exact(c, l) == Call_("add_exact", c, c, l, 0, "", <<>>, FALSE)

\* add_transient(b, c) / add_scoped(b, c) / add_singleton(b, c)
Bound(b, c, l) == Call_("bind_types", b, c, l, 0, "", <<>>, FALSE)

\* add_instance(c(), k)
Inst(k, c) == Call_("add_instance", k, c, SINGLETON, 0, "", <<>>, FALSE)

\* add_*_by_factory(factory, k), the factory declared with n parameters and
\* returning y
Fact(k, l, n, y) == Call_("register_factory", k, k, l, n, y, <<>>, FALSE)

\* add_*_by_factory(factory), the factory declared with n parameters and
\* with no return annotation
FactUntyped(l, n, y) == Call_("register_factory", "", "", l, n, y, <<>>, FALSE)

\* add_alias(name, k)
Alias(name, k) == Call_("add_alias", k, k, "", 0, "", name, FALSE)

\* set_alias(name, k, override)
Exactly(name, k, override) == Call_("set_alias", k, k, "", 0, "", name, override)

\* defaults are the values the application passes as the default of a get
\* (an object being one of the heap), builds is the number of providers it
\* builds, methods are the functions it has a provider execute, sets are the
\* calls of provider.set it makes, scope_classes are the classes of which it
\* makes its scopes
World(strict_, calls, asks, names, seeds) ==
    [strict |-> strict_, calls |-> calls, asks |-> asks, names |-> names,
     seeds |-> seeds, defaults |-> {Ellipsis}, builds |-> MaxProviders,
     methods |-> {}, sets |-> {}, scope_classes |-> {ScopeClass}]

\* a leaf, a dependent and a dependent of both, in every lifetime
WorldLifetimes ==
    World(FALSE,
          {Exact("A", l) : l \in ServiceLifeStyle}
            \cup {Exact("B", l) : l \in ServiceLifeStyle}
            \cup {Exact("C", TRANSIENT)},
          {"A", "B", "C"}, {<<"a">>}, {"A"})

\* one concrete type under its own key and under a base key, and the calls
\* that name an abstract class, or a class that is no subclass of the key,
\* as the concrete type
WorldKeys ==
    World(FALSE,
          {Exact("A", l) : l \in ServiceLifeStyle}
            \cup {Bound("IA", "A", l) : l \in ServiceLifeStyle}
            \cup {Exact("D", TRANSIENT), Exact("IA", SCOPED),
                  Bound("IA", "IA", SINGLETON), Bound("A", "IA", TRANSIENT)},
          {"A", "IA", "D"}, {<<"i", "a">>}, {"IA", "A"})

\* instances that are falsy, factories of every arity that return an
\* instance or None, a registered instance, a class with annotated fields
WorldValues ==
    World(FALSE,
          {Exact("E", SINGLETON), Exact("H", SINGLETON), Inst("A", "A"),
           Fact("N", SINGLETON, 0, "none"), Fact("N", SINGLETON, 2, "new"),
           Fact("N", SCOPED, 1, "none"), Fact("N", TRANSIENT, 3, "new"),
           FactUntyped(SINGLETON, 1, "new"), FactUntyped(TRANSIENT, 3, "new")},
          {"E", "H", "N"}, {<<"n">>}, {})

\* names that the caller makes aliases of a key
WorldAliases ==
    World(FALSE,
          {Exact("A", SINGLETON), Exact("R", TRANSIENT),
           Alias(<<"x">>, "A"), Exactly(<<"y">>, "A", FALSE)},
          {"A", "R"}, {<<"x">>, <<"y">>}, {})

LifetimeWorlds == {WorldLifetimes, WorldKeys, WorldValues, WorldAliases}

\* cycles of one, two and three types, a type that depends on a cycle, and
\* a factory and an instance for types of a cycle
WorldCycles ==
    World(FALSE,
          {Exact("K", SINGLETON), Exact("J", SCOPED), Exact("G", TRANSIENT),
           Exact("T", SINGLETON), Fact("J", TRANSIENT, 0, "new"), Inst("G", "G"),
           Exact("W", TRANSIENT), Exact("X", SCOPED), Exact("Y", SINGLETON)},
          {"J", "G", "T"}, {<<"j">>}, {})

\* dependents, in every lifetime, of a type or a name that may be missing
WorldMissing ==
    World(FALSE,
          {Exact("B", l) : l \in ServiceLifeStyle}
            \cup {Exact("R", l) : l \in ServiceLifeStyle}
            \cup {Exact("A", TRANSIENT), Alias(<<"a">>, "A"),
                  Exactly(<<"a">>, "A", FALSE)},
          {"A", "B", "R"}, {<<"a">>}, {})

\* a diamond, a dependency on a base type, annotated fields, an Optional
\* parameter
WorldShapes ==
    World(FALSE,
          {Exact("A", SCOPED), Exact("B", TRANSIENT), Exact("C", SINGLETON),
           Bound("IA", "A", SINGLETON), Exact("D", SCOPED), Exact("H", TRANSIENT),
           Exact("O", TRANSIENT)},
          {"A", "C", "D", "H"}, {<<"a">>}, {"A"})

\* a factory of two parameters for a leaf, and dependents of the leaf that
\* declare it by a constructor parameter, by an annotated field, and through
\* a dependency with annotated fields
WorldActivating ==
    World(FALSE,
          {Fact("A", TRANSIENT, 2, "new"), Exact("B", TRANSIENT),
           Exact("H", TRANSIENT), Exact("U", TRANSIENT)},
          {"A", "B", "H", "U"}, {}, {})

GraphWorlds == {WorldCycles, WorldMissing, WorldShapes, WorldActivating}

\* a strict container: parameters with and without a declared type, a
\* cycle, and the calls that a strict container refuses
WorldStrict ==
    World(TRUE,
          {Exact("A", SINGLETON), Exact("B", SCOPED), Exact("R", TRANSIENT),
           Exact("K", TRANSIENT), Alias(<<"a">>, "A"),
           Exactly(<<"a">>, "A", FALSE)},
          {"A", "B"}, {<<"A">>, <<"a">>}, {})

\* a parameter whose declared type is not the key its name is an alias
\* of, and a parameter with no declared type whose name has no, one or
\* two candidates and may have an exact alias
WorldPrecedence ==
    World(FALSE,
          {Exact("A", SINGLETON), Exact("E", SINGLETON), Exact("P", TRANSIENT),
           Exact("R", SCOPED), Alias(<<"a">>, "E"),
           Exactly(<<"a">>, "E", FALSE), Exactly(<<"e">>, "E", FALSE),
           Exactly(<<"a">>, "A", TRUE)},
          {"E", "P", "R"}, {<<"a">>, <<"e">>}, {})

\* names aliased once and again, with keys that are registered or not
WorldAliasTables ==
    World(FALSE,
          {Exact("A", SINGLETON), Exact("N", TRANSIENT),
           Alias(<<"x">>, "A"), Alias(<<"n">>, "A"),
           Exactly(<<"x">>, "A", FALSE), Exactly(<<"x">>, "N", FALSE),
           Exactly(<<"x">>, "N", TRUE), Exactly(<<"a">>, "N", FALSE)},
          {"A", "N"}, {<<"A">>, <<"a">>, <<"n">>, <<"x">>}, {})

\* keys and names with no Producer, asked for with and without a default,
\* with no scope, with a scope and with a scope that holds a value
WorldDefaults ==
    [World(FALSE,
           {Exact("A", SCOPED), Fact("N", TRANSIENT, 1, "new")},
           {"A", "B", "N", "E"}, {<<"a">>, <<"b">>}, {"B", "E"})
     EXCEPT !.defaults = {Ellipsis, None, 1}]

\* a key registered with an instance, next to a base key whose concrete
\* type is the type of that key, and a dependent
WorldInstances ==
    World(FALSE,
          {Inst("A", "A"), Bound("IA", "A", SCOPED), Exact("B", TRANSIENT)},
          {"A", "IA", "B"}, {<<"a">>}, {})

\* a key registered with an instance and a dependent, in a container that
\* is built again after later registrations
WorldRebuilt ==
    [World(FALSE,
           {Inst("A", "A"), Exact("B", TRANSIENT)},
           {"A", "B"}, {}, {})
     EXCEPT !.builds = MaxRebuilds]

NameWorlds ==
    {WorldStrict, WorldPrecedence, WorldAliasTables, WorldDefaults,
     WorldInstances, WorldRebuilt}

(***************************************************************************)
(* The specification.                                                      *)
(***************************************************************************)
\* Container(strict=...), before any registration
Start(worlds) ==
    /\ world \in worlds
    /\ strict = world.strict
    /\ cmap = <<>>
    /\ aliases = <<>>
    /\ exact_aliases = <<>>
    /\ cprovider = None
    /\ heap = <<>>
    /\ producers = <<>>
    /\ providers = <<>>
    /\ scopes = <<>>
    /\ gets = <<>>
    /\ outcome = Ok("Container")

Init == Start(LifetimeWorlds)

InitGraphs == Start(GraphWorlds)

InitNames == Start(NameWorlds)

\* a class of which an instance can stand for the type t
ConcreteOf(t) ==
    IF ~ClassTable[t].abstract THEN t
    ELSE CHOOSE c \in Classes : issubclass(c, t) /\ ~ClassTable[c].abstract

Register ==
    /\ Len(cmap) < MaxRegs
    /\ Len(providers) < world.builds
    /\ \E call \in world.calls :
          \/ AddExact(call)
          \/ BindTypes(call)
          \/ AddInstance(call)
          \/ RegisterFactory(call)

\* container.add_alias(name, key) and container.set_alias(name, key, override)
SetAliases ==
    /\ Len(providers) < world.builds
    /\ \E call \in world.calls :
          \/ AddAlias(call)
          \/ SetAlias(call)

\* ActivationScope(provider) and ActivationScope(provider, {seed: instance}),
\* of the class of rodi/activation_scope.py or of rodi/services.py, the
\* instance being one the caller constructs or one it already holds
NewScope ==
    /\ Len(scopes) < MaxScopes
    /\ \E class \in world.scope_classes, provider \in 1..Len(providers),
          seed \in world.seeds \cup {""}, held \in 0..Len(heap) :
          IF seed = ""
          THEN /\ held = None
               /\ scopes' = Append(scopes,
                                   ActivationScope(class, provider, EmptyDict, ""))
               /\ heap' = heap
          ELSE IF held = None
          THEN /\ Len(heap) < MaxHeap
               /\ heap' = Append(heap, NewInstance(ConcreteOf(seed),
                                                   NoneFields(ConcreteOf(seed)),
                                                   NoArg, None))
               /\ scopes' = Append(scopes,
                                   ActivationScope(class, provider,
                                                   DictSet(EmptyDict, seed,
                                                           Len(heap) + 1),
                                                   seed))
          ELSE /\ heap[held].cls = ConcreteOf(seed)
               /\ heap' = heap
               /\ scopes' = Append(scopes,
                                   ActivationScope(class, provider,
                                                   DictSet(EmptyDict, seed, held),
                                                   seed))
    /\ outcome' = [Ok("ActivationScope") EXCEPT !.ret = Len(scopes) + 1]
    /\ UNCHANGED <<world, container, producers, providers, gets>>

\* scope.dispose(), also the end of a `with scope:` block; a scope that was
\* disposed can be disposed again
Dispose ==
    \E s \in CallerScopes :
       /\ scopes' = [scopes EXCEPT ![s] = dispose(@)]
       /\ outcome' = Ok("dispose")
       /\ UNCHANGED <<world, container, heap, producers, providers, gets>>

\* the start of a `with scope:` block on a scope that was used before
Enter ==
    \E s \in CallerScopes :
       /\ ~scopes[s].live
       /\ scopes' = [scopes EXCEPT ![s] = enter(@)]
       /\ outcome' = Ok("__enter__")
       /\ UNCHANGED <<world, container, heap, producers, providers, gets>>

\* the record of a get made by a getter: st is the state before the get, r
\* what it returned
GetRecord(provider, scope, param, st, r) ==
    [provider |-> provider,
     key |-> IF param.annotation = Empty THEN "" ELSE param.annotation,
     name |-> IF param.annotation = Empty THEN param.name ELSE <<>>,
     scope |-> scope, default |-> Ellipsis,
     cached |-> IF param.annotation \in DOMAIN st.cache
                THEN st.cache[param.annotation] ELSE None,
     val |-> r.val, exc |-> r.exc,
     fresh |-> r.val > Len(st.heap),
     live |-> TRUE, uses |-> 0]

\* the heap and the mapping `scoped` of an invocation that is given a value
\* for the key seed: an instance the caller constructs for it (held is
\* None) or one it holds
HeapGiven(seed, held) ==
    IF seed # "" /\ held = None
    THEN Append(heap, NewInstance(ConcreteOf(seed), NoneFields(ConcreteOf(seed)),
                                  NoArg, None))
    ELSE heap

ScopedGiven(seed, held) ==
    IF seed = "" THEN EmptyDict
    ELSE DictSet(EmptyDict, seed, IF held = None THEN Len(heap) + 1 ELSE held)

\* what a call of get left behind: the heap, the producers' cells and the
\* scope's cache; the call is recorded in gets
Got(provider, key, name, scope, default, r) ==
    /\ Len(r.st.heap) <= MaxHeap
    /\ heap' = r.st.heap
    /\ producers' = r.st.prods
    /\ scopes' = IF scope = None \/ scopes[scope].none THEN scopes
                 ELSE [scopes EXCEPT ![scope].scoped_services = r.st.cache]
    /\ gets' = Append(gets,
                      [provider |-> provider, key |-> key, name |-> name,
                       scope |-> scope, default |-> default,
                       cached |-> IF scope = None \/ scopes[scope].none
                                     \/ key \notin DOMAIN scopes[scope].scoped_services
                                  THEN None
                                  ELSE scopes[scope].scoped_services[key],
                       val |-> r.val, exc |-> r.exc,
                       fresh |-> r.val > Len(heap),
                       live |-> scope = None \/ scopes[scope].live,
                       uses |-> IF scope = None THEN 0 ELSE scopes[scope].uses])
    /\ outcome' = [Raised("get", r.exc, name, key) EXCEPT !.ret = r.val]
    /\ UNCHANGED <<world, container, providers>>

\* the values the application may pass as the default of a get: of the
\* objects, those that it made itself
Defaults ==
    {v \in world.defaults : v <= 0 \/ (v <= Len(heap) /\ heap[v].by = None)}

\* provider.get(desired_type, scope, default=default)
Get ==
    /\ Len(gets) < MaxGets
    /\ \E provider \in 1..Len(providers), desired_type \in world.asks,
          scope \in {None} \cup CallerScopes,
          default \in Defaults :
          Got(provider, desired_type, <<>>, scope, default,
              ServicesGet(provider, desired_type, scope, default))

\* provider.get(name, scope, default=default)
GetByName ==
    /\ Len(gets) < MaxGets
    /\ \E provider \in 1..Len(providers), name \in world.names,
          scope \in {None} \cup CallerScopes,
          default \in Defaults :
          Got(provider, "", name, scope, default,
              ServicesGetByName(provider, name, scope, default))

Next ==
    \/ Register
    \/ SetAliases
    \/ BuildProvider
    \/ NewScope
    \/ Dispose
    \/ Enter
    \/ Get
    \/ GetByName

\* the getter of Services._get_getter for one parameter of a function:
\* self.get(param.annotation, context), or self.get(key, context) for a
\* parameter with no annotation
GetterCall(provider, param, st) ==
    IF param.annotation = Empty
    THEN ServicesGetByNameIn(providers[provider], st, param.name)
    ELSE ServicesGetIn(providers[provider], st, FALSE, param.annotation)

\* `[fn(context) for fn in fns]` from the i-th getter on: the getters are
\* called in the order of the parameters, in the scope `scope` of the
\* invocation, and the first exception ends the list.  recs are the gets
\* made so far, r is what the i-th getter returned, st the state before it
RECURSIVE Getters(_, _, _, _, _, _), GettersAfter(_, _, _, _, _, _, _)
Getters(provider, scope, params, i, st, recs) ==
    IF i > Len(params)
    THEN [st |-> st, exc |-> "", recs |-> recs]
    ELSE GettersAfter(provider, scope, params, i, st, recs,
                      GetterCall(provider, params[i], st))

GettersAfter(provider, scope, params, i, st, recs, r) ==
    IF r.exc # ""
    THEN [st |-> r.st, exc |-> r.exc,
          recs |-> Append(recs, GetRecord(provider, scope, params[i], st, r))]
    ELSE Getters(provider, scope, params, i + 1, r.st,
                 Append(recs, GetRecord(provider, scope, params[i], st, r)))

\* an invocation that disposes its scope on normal return only
ExecutedNoFinally(provider, method, seed, cache, g) ==
    /\ Len(g.st.heap) <= MaxHeap
    /\ heap' = g.st.heap
    /\ producers' = g.st.prods
    /\ gets' = gets \o g.recs
    /\ outcome' = [op |-> "exec",
                   exc |-> IF g.exc # "" THEN g.exc
                           ELSE IF method.raises THEN "Exception" ELSE "",
                   param |-> <<>>, type |-> "", ret |-> None,
                   id |-> 0 - (Len(gets) + 1), given |-> cache,
                   scope |-> IF g.exc # "" \/ method.raises
                             THEN [ActivationScope(ServicesScopeClass, provider, cache, seed)
                                     EXCEPT !.scoped_services = g.st.cache]
                             ELSE dispose([ActivationScope(ServicesScopeClass, provider, cache, seed)
                                             EXCEPT !.scoped_services = g.st.cache])]
    /\ UNCHANGED <<world, container, providers, scopes>>

\* what an invocation leaves behind, g being what the getters made: the
\* function is called when every getter returned, and the scope of the
\* invocation is disposed by the `with` statement however the body ends
Executed(provider, method, seed, cache, g) ==
    /\ Len(g.st.heap) <= MaxHeap
    /\ heap' = g.st.heap
    /\ producers' = g.st.prods
    /\ gets' = gets \o g.recs
    /\ outcome' = [op |-> "exec",
                   exc |-> IF g.exc # "" THEN g.exc
                           ELSE IF method.raises THEN "Exception" ELSE "",
                   param |-> <<>>, type |-> "", ret |-> None,
                   id |-> 0 - (Len(gets) + 1), given |-> cache,
                   scope |-> dispose([ActivationScope(ServicesScopeClass, provider, cache, seed)
                                        EXCEPT !.scoped_services = g.st.cache])]
    /\ UNCHANGED <<world, container, providers, scopes>>

\* the mapping that an invocation was given, read from its scope: a getter
\* adds keys to the mapping and never replaces the value of one
Given(scope) ==
    IF scope.seed = "" THEN EmptyDict
    ELSE DictSet(EmptyDict, scope.seed, scope.scoped_services[scope.seed])

\* get_factory_annotations_or_throw in get_executor, on Python 3.10 and
\* later: a function that @inject() did not decorate is refused before a
\* getter is made.  The caller has made the mapping it passes by then, so
\* an instance it constructed for the mapping exists when the call raises
MissingContext(seed, held) ==
    /\ Len(HeapGiven(seed, held)) <= MaxHeap
    /\ heap' = HeapGiven(seed, held)
    /\ outcome' = Raised("get_executor", "FactoryMissingContextException", <<>>, "")
    /\ UNCHANGED <<world, container, producers, providers, scopes, gets>>

\* the call of async_executor: it returns a coroutine that holds the
\* provider and the mapping, and runs nothing of its body
Coroutine(provider, method, seed, held) ==
    /\ Len(scopes) < MaxScopes
    /\ Len(HeapGiven(seed, held)) <= MaxHeap
    /\ heap' = HeapGiven(seed, held)
    /\ scopes' = Append(scopes,
                        [ActivationScope(ServicesScopeClass, provider,
                                         ScopedGiven(seed, held), seed)
                           EXCEPT !.pc = "created", !.method = method])
    /\ outcome' = [Ok("async_executor") EXCEPT !.ret = Len(scopes) + 1]
    /\ UNCHANGED <<world, container, producers, providers, gets>>

\* provider.exec(method, scoped) and provider.get_executor(method)(scoped):
\* scoped is None or {seed: instance}, the instance being one the caller
\* constructs or one it already holds, and a mapping is given to one
\* invocation only.  The scope of an invocation of a function is not one of
\* `scopes`: its gets carry a negative number that tells the invocations
\* apart.  Services._executors, in which exec keeps the executor of a
\* method, is left out: an executor keeps no state
Exec ==
    \E provider \in 1..Len(providers), method \in world.methods,
       seed \in world.seeds \cup {""}, held \in 0..Len(heap) :
       /\ seed = "" => held = None
       /\ held # None => heap[held].cls = ConcreteOf(seed)
       /\ IF ~method.injected
          THEN MissingContext(seed, held)
          ELSE IF method.coroutine
          THEN Coroutine(provider, method, seed, held)
          ELSE /\ Len(gets) + Len(method.params) <= MaxGets
               /\ Executed(provider, method, seed,
                           ScopedGiven(seed, held),
                           Getters(provider, 0 - (Len(gets) + 1), method.params, 1,
                                   [heap |-> HeapGiven(seed, held), prods |-> producers,
                                    cache |-> ScopedGiven(seed, held),
                                    class |-> ServicesScopeClass],
                                   <<>>))

\* the number that the gets of the coroutine c carry; id, in the outcome of
\* an invocation, is the number that its gets carry
InvocationOf(c) == 0 - (MaxGets + c)

\* what the first step of a coroutine leaves behind, g being what the
\* getters made: when a getter raised the `with` statement disposes the
\* scope and the coroutine ends, otherwise the function is called and
\* suspends with the scope open
Driven(c, g) ==
    /\ Len(g.st.heap) <= MaxHeap
    /\ heap' = g.st.heap
    /\ producers' = g.st.prods
    /\ gets' = gets \o g.recs
    /\ IF g.exc # ""
       THEN /\ scopes' = [scopes EXCEPT ![c] =
                             [dispose([@ EXCEPT !.scoped_services = g.st.cache])
                                EXCEPT !.pc = "done"]]
            /\ outcome' = [op |-> "exec", exc |-> g.exc, param |-> <<>>,
                           type |-> "", ret |-> None, id |-> InvocationOf(c),
                           given |-> Given(scopes[c]),
                           scope |-> [dispose([scopes[c] EXCEPT
                                                 !.scoped_services = g.st.cache])
                                        EXCEPT !.pc = "done"]]
       ELSE /\ scopes' = [scopes EXCEPT ![c].scoped_services = g.st.cache,
                                        ![c].pc = "suspended"]
            /\ outcome' = Ok("await")
    /\ UNCHANGED <<world, container, providers>>

\* the event loop runs a coroutine of async_executor for the first time:
\* the scope is made and entered, the getters are called and the function
\* runs up to its first suspension
Drive ==
    \E c \in 1..Len(scopes) :
       /\ scopes[c].pc = "created"
       /\ Len(gets) + Len(scopes[c].method.params) <= MaxGets
       /\ Driven(c, Getters(scopes[c].provider, InvocationOf(c),
                            scopes[c].method.params, 1,
                            [heap |-> heap, prods |-> producers,
                             cache |-> scopes[c].scoped_services,
                             class |-> ServicesScopeClass],
                            <<>>))

\* the event loop resumes a suspended coroutine: the function returns or
\* raises and the `with` statement disposes the scope
Resume ==
    \E c \in 1..Len(scopes) :
       /\ scopes[c].pc = "suspended"
       /\ scopes' = [scopes EXCEPT ![c] = [dispose(@) EXCEPT !.pc = "done"]]
       /\ outcome' = [op |-> "exec",
                      exc |-> IF scopes[c].method.raises THEN "Exception" ELSE "",
                      param |-> <<>>, type |-> "", ret |-> None,
                      id |-> InvocationOf(c), given |-> Given(scopes[c]),
                      scope |-> [dispose(scopes[c]) EXCEPT !.pc = "done"]]
       /\ UNCHANGED <<world, container, heap, producers, providers, gets>>

\* what the first use of Container.provider and the get that follows leave
\* behind: the provider built is kept by the container
Provided(services, obj_type, scope, ctx, r) ==
    /\ Len(r.st.heap) <= MaxHeap
    /\ aliases' = ctx.aliases
    /\ providers' = Append(providers, services)
    /\ cprovider' = Len(providers) + 1
    /\ heap' = r.st.heap
    /\ producers' = r.st.prods
    /\ scopes' = IF scope = None \/ scopes[scope].none THEN scopes
                 ELSE [scopes EXCEPT ![scope].scoped_services = r.st.cache]
    /\ gets' = Append(gets,
                      [provider |-> Len(providers) + 1, key |-> obj_type,
                       name |-> <<>>, scope |-> scope, default |-> Ellipsis,
                       cached |-> IF scope = None \/ scopes[scope].none
                                     \/ obj_type \notin DOMAIN scopes[scope].scoped_services
                                  THEN None
                                  ELSE scopes[scope].scoped_services[obj_type],
                       val |-> r.val, exc |-> r.exc,
                       fresh |-> r.val > Len(heap),
                       live |-> scope = None \/ scopes[scope].live,
                       uses |-> IF scope = None THEN 0 ELSE scopes[scope].uses])
    /\ outcome' = [Raised("get", r.exc, <<>>, obj_type) EXCEPT !.ret = r.val]
    /\ UNCHANGED <<world, strict, cmap, exact_aliases>>

\* Container.provider when the container holds no provider, followed by
\* the get of Container.resolve; b is what build_provider made
ProviderThenGet(obj_type, scope, b) ==
    IF b.exc.exc # ""
    THEN /\ aliases' = b.ctx.aliases
         /\ outcome' = b.exc
         /\ UNCHANGED <<world, strict, cmap, exact_aliases, cprovider, heap,
                        producers, providers, scopes, gets>>
    ELSE Provided(Services(b.types, b.names), obj_type, scope, b.ctx,
                  ServicesGetIn(Services(b.types, b.names),
                                [heap |-> heap, prods |-> b.ctx.prods,
                                 cache |-> IF scope = None THEN EmptyDict
                                           ELSE scopes[scope].scoped_services,
                                 class |-> ClassOf(scope)],
                                scope # None /\ scopes[scope].none, obj_type))

\* container.resolve(obj_type, scope), obj_type being a type
Resolve ==
    /\ Len(gets) < MaxGets
    /\ \E obj_type \in world.asks, scope \in {None} \cup CallerScopes :
          IF cprovider # None
          THEN Got(cprovider, obj_type, <<>>, scope, Ellipsis,
                   ServicesGet(cprovider, obj_type, scope, Ellipsis))
          ELSE /\ Len(providers) < world.builds
               /\ \E first \in Firsts(BuiltTypes) :
                     ProviderThenGet(obj_type, scope, build_provider(first))

\* what the first use of Container.provider leaves behind, b being what
\* build_provider made: the provider built is kept by the container
ProviderBuilt(b) ==
    /\ Built(b)
    /\ cprovider' = IF b.exc.exc = "" THEN Len(providers) + 1 ELSE cprovider

\* container.provider, the property alone: the provider that the container
\* keeps, built when it keeps none
Provider ==
    /\ IF cprovider # None
       THEN /\ outcome' = [Ok("provider") EXCEPT !.ret = cprovider]
            /\ UNCHANGED <<aliases, cprovider, producers, providers>>
       ELSE /\ Len(providers) < world.builds
            /\ \E first \in Firsts(BuiltTypes) :
                  ProviderBuilt(build_provider(first))
    /\ UNCHANGED <<world, strict, cmap, exact_aliases, heap, scopes, gets>>

\* applications that differ in lifetimes, keys and produced values
Spec == Init /\ [][Next]_vars

\* applications that differ in the shape of the dependency graph
SpecGraphs == InitGraphs /\ [][Next]_vars

\* applications that differ in the names they alias and ask for
SpecNames == InitNames /\ [][Next]_vars

(***************************************************************************)
(* Properties.  A get is one entry of gets: the provider, the key or the   *)
(* name asked for, the scope passed (None: none), what was returned or     *)
(* raised, whether the returned instance was made by the call (fresh),     *)
(* whether the scope was live, and how often the scope's cache had been    *)
(* discarded before the call (uses).                                       *)
(***************************************************************************)
\* the gets that returned and that asked for a key registered with the
\* lifetime l by a type or a factory
GetsOf(l) ==
    {i \in 1..Len(gets) :
        /\ gets[i].exc = ""
        /\ Has(cmap, gets[i].key)
        /\ Lookup(cmap, gets[i].key).kind # "InstanceResolver"
        /\ Lookup(cmap, gets[i].key).life_style = l}

\* two gets of one key on one provider
SameKey(i, j) ==
    /\ gets[i].key = gets[j].key
    /\ gets[i].provider = gets[j].provider

\* two gets with one scope object
SameScope(i, j) == gets[i].scope # None /\ gets[i].scope = gets[j].scope

\* the scope of a get was created holding a value
Seeded(i) == gets[i].scope # None /\ scopes[gets[i].scope].seed # ""

\* C1: for a key registered with Singleton lifetime, every get of that key on
\* one provider, with no scope or with any scope, returns the identical
\* instance (scopes created holding a value are set aside: the value a
\* caller supplies is meant to be returned).
C1_SingletonGetsIdentical ==
    \A i, j \in GetsOf(SINGLETON) :
        (SameKey(i, j) /\ ~Seeded(i) /\ ~Seeded(j)) => gets[i].val = gets[j].val

\* C1, the failing case: two gets of a Singleton key whose instance is falsy
C1_FalsySingletonTwice ==
    \E i, j \in GetsOf(SINGLETON) :
        /\ i < j /\ SameKey(i, j)
        /\ gets[i].val # None /\ ClassTable[heap[gets[i].val].cls].falsy

\* the Producer stored in the map of the provider P for a key
ProducerOf(P, key) == providers[P].types[key]

\* C2: one build compiles each key to exactly one Producer: the Producer held
\* in the argument list of a dependent, for a parameter declared with the type
\* K, is the Producer stored in the provider map for K, whatever the order of
\* the registrations.
C2_OneProducerPerKey ==
    \A P \in 1..Len(providers) :
        \A D \in DOMAIN providers[P].types :
            LET p == producers[ProducerOf(P, D)]
            IN  \A a \in 1..Len(p.args) :
                    LET K == ClassTable[p.type].params[a].annotation
                    IN  K \in DOMAIN providers[P].types
                            => p.args[a] = ProducerOf(P, K)

\* C2, the failing case: a provider built from a dependent registered before
\* its dependency
C2_DependentRegisteredFirst ==
    /\ Len(providers) = 1
    /\ \E d, k \in 1..Len(cmap) :
          /\ d < k
          /\ cmap[d].value.kind = "DynamicResolver"
          /\ \E a \in 1..Len(ClassTable[cmap[d].value.concrete_type].params) :
                ClassTable[cmap[d].value.concrete_type].params[a].annotation
                    = cmap[k].key

\* C3: over any sequence of activations a Singleton Producer invokes its
\* constructor or factory at most once, whatever value it returns.
C3_SingletonMadeOnce ==
    \A pid \in 1..Len(producers) :
        producers[pid].kind \in {"SingletonTypeProvider",
                                 "SingletonFactoryTypeProvider"}
            => producers[pid].made <= 1

\* C3, the failing case: a Singleton Producer was activated twice
C3_SingletonActivatedTwice ==
    \E i, j \in GetsOf(SINGLETON) :
        /\ i < j /\ SameKey(i, j)
        /\ producers[ProducerOf(gets[i].provider, gets[i].key)].kind
              \in {"SingletonTypeProvider", "SingletonFactoryTypeProvider"}

\* the instances held by v, v being an instance or None
Held(v) == IF v = None THEN {} ELSE {heap[v].fields[f] : f \in 1..Len(heap[v].fields)}

\* the arguments of the instance v that were supplied for a parameter declared
\* with a type registered with the lifetime l
NestedOf(l, v) ==
    IF v = None THEN {}
    ELSE {heap[v].fields[f] :
            f \in {g \in 1..Len(heap[v].fields) :
                     LET K == ClassTable[heap[v].cls].params[g].annotation
                     IN  /\ heap[v].fields[g] # None
                         /\ Has(cmap, K)
                         /\ Lookup(cmap, K).kind = "DynamicResolver"
                         /\ Lookup(cmap, K).life_style = l}}

\* C4: for a key registered with Transient lifetime every get yields a new
\* instance, with no scope, with the same scope and after other keys were
\* activated in the scope; and two activations of a dependent hold different
\* instances of a Transient dependency (scopes created holding a value are
\* set aside).
C4_TransientAlwaysNew ==
    /\ \A i \in GetsOf(TRANSIENT) : ~Seeded(i) => gets[i].fresh
    /\ \A i, j \in 1..Len(gets) :
          (i # j /\ gets[i].exc = "" /\ gets[j].exc = ""
             /\ gets[i].val # gets[j].val)
          => NestedOf(TRANSIENT, gets[i].val) \cap NestedOf(TRANSIENT, gets[j].val)
               = {}

\* C4, the failing case: a Transient key asked for with a scope in which a
\* Scoped key of the same concrete type was activated before
C4_TransientAfterScopedOfSameType ==
    \E i \in GetsOf(SCOPED), j \in GetsOf(TRANSIENT) :
        /\ i < j /\ SameScope(i, j) /\ ~Seeded(i)
        /\ gets[i].key # gets[j].key
        /\ Lookup(cmap, gets[i].key).concrete_type
             = Lookup(cmap, gets[j].key).concrete_type

\* the scope of a get was created holding a value for the key asked for
GivenFor(i) == gets[i].scope # None /\ scopes[gets[i].scope].seed = gets[i].key

\* C5: for a key registered with Scoped lifetime, two gets with the same
\* scope return the identical instance, and two gets with different scopes,
\* or with no scope, return distinct instances.  Two cases are set aside as
\* what the caller asks for: a scope created holding a value for the key,
\* which is the value to return, and a scope whose cache dispose discarded
\* between the two gets.
C5_ScopedPerScope ==
    \A i, j \in GetsOf(SCOPED) :
        (/\ i # j /\ SameKey(i, j) /\ gets[i].val # None /\ gets[j].val # None
         /\ ~GivenFor(i) /\ ~GivenFor(j))
        => /\ (SameScope(i, j) /\ gets[i].uses = gets[j].uses)
                => gets[i].val = gets[j].val
           /\ ~SameScope(i, j) => gets[i].val # gets[j].val

\* C5, the failing case: a Scoped base key was got with no scope and then
\* with a scope that was created holding that instance under the concrete
\* type, not under the key, and the second get returned the same instance
C5_GivenUnderConcreteType ==
    \E i, j \in GetsOf(SCOPED) :
        /\ i < j /\ SameKey(i, j)
        /\ gets[i].scope = None /\ gets[j].scope # None
        /\ scopes[gets[j].scope].seed # gets[j].key
        /\ scopes[gets[j].scope].seed = Lookup(cmap, gets[j].key).concrete_type
        /\ gets[i].fresh /\ gets[j].val = gets[i].val

\* the kinds of Producer that a Transient or Scoped registration compiles to
UnsharedKinds ==
    {"TypeProvider", "ArgsTypeProvider", "FactoryTypeProvider",
     "ScopedTypeProvider", "ScopedArgsTypeProvider", "ScopedFactoryTypeProvider"}

\* the instances that stand for the key K in the object graph below the
\* instance v, followed through Transient and Scoped dependents only, to the
\* depth n
RECURSIVE References(_, _, _)
References(K, v, n) ==
    IF v = None \/ n = 0 THEN {}
    ELSE IF heap[v].by = None THEN {}
    ELSE IF producers[heap[v].by].kind \notin UnsharedKinds THEN {}
    ELSE UNION {
            (IF /\ ClassTable[heap[v].cls].params[f].annotation = K
                /\ heap[v].fields[f] # None
             THEN {heap[v].fields[f]} ELSE {})
              \cup References(K, heap[v].fields[f], n - 1) :
            f \in 1..Len(heap[v].fields)}

\* the instances that stand for the key K in what the get i returned
ReferencesOfGet(K, i) ==
    (IF gets[i].key = K /\ gets[i].val # None THEN {gets[i].val} ELSE {})
      \cup References(K, gets[i].val, MaxRegs)

\* the keys registered with Scoped lifetime by a type
ScopedKeys ==
    {K \in Keys(cmap) : /\ Lookup(cmap, K).kind = "DynamicResolver"
                        /\ Lookup(cmap, K).life_style = SCOPED}

\* C6: within one Activation Scope (its cache not discarded in between) a
\* Scoped key has a single instance across the whole object graph: reached
\* through Transient or Scoped dependents and requested directly with that
\* scope, every reference is the same instance.
C6_ScopedSingleInGraph ==
    \A K \in ScopedKeys :
        \A i, j \in 1..Len(gets) :
            (/\ gets[i].exc = "" /\ gets[j].exc = ""
             /\ gets[i].provider = gets[j].provider
             /\ SameScope(i, j) /\ gets[i].uses = gets[j].uses)
            => Cardinality(ReferencesOfGet(K, i) \cup ReferencesOfGet(K, j)) <= 1

\* C6, the failing case: a Scoped key requested directly and a dependent of
\* it activated, both with one scope
C6_DirectAndNested ==
    \E K \in ScopedKeys :
        \E i, j \in 1..Len(gets) :
            /\ gets[i].exc = "" /\ gets[j].exc = ""
            /\ SameScope(i, j) /\ gets[i].uses = gets[j].uses
            /\ gets[i].key = K /\ gets[i].val # None
            /\ gets[j].key # K
            /\ References(K, gets[j].val, MaxRegs) # {}

(***************************************************************************)
(* The dependency graph of a configuration, read from the registrations    *)
(* and the alias tables.                                                   *)
(***************************************************************************)
\* the keys registered by a type: those a Dynamic resolver compiles
DynamicKeys == {K \in Keys(cmap) : Lookup(cmap, K).kind = "DynamicResolver"}

\* the dependencies of a key registered by a type: <<K, i>> is the i-th
\* parameter of the concrete type of K
Dependencies ==
    {<<K, i>> : K \in DynamicKeys, i \in 1..Cardinality(Classes)} \cap
    {d \in DynamicKeys \X (1..Cardinality(Classes)) :
        d[2] <= Len(ClassTable[Lookup(cmap, d[1]).concrete_type].params)}

ParamOf(d) == ClassTable[Lookup(cmap, d[1]).concrete_type].params[d[2]]

\* the candidates of a name in the inferred-alias table
Candidates(name) == IF Has(aliases, name) THEN Lookup(aliases, name) ELSE {}

\* a dependency declared as a Union or Optional
IsUnion(d) == ParamOf(d).annotation = Union

\* a dependency with no declared type whose name has several candidates and
\* no exact alias
IsAmbiguous(d) ==
    /\ ParamOf(d).annotation = Empty
    /\ ~strict
    /\ ~Has(exact_aliases, ParamOf(d).name)
    /\ Cardinality(Candidates(ParamOf(d).name)) > 1

\* the key a dependency resolves to: its declared type, else the exact alias
\* of its name, else the single candidate of its name; "" when there is none
KeyOf(d) ==
    LET param == ParamOf(d)
    IN  IF param.annotation # Empty THEN param.annotation
        ELSE IF strict THEN ""
        ELSE IF Has(exact_aliases, param.name)
        THEN Lookup(exact_aliases, param.name)
        ELSE IF Cardinality(Candidates(param.name)) = 1
        THEN CHOOSE t \in Candidates(param.name) : TRUE
        ELSE ""

\* a dependency that resolves to a key that is not in the registry
IsMissing(d) == ~IsUnion(d) /\ ~IsAmbiguous(d) /\ ~Has(cmap, KeyOf(d))

\* the keys registered by a type that the key K depends on directly
DependsOn(K) ==
    {KeyOf(d) : d \in {e \in Dependencies : e[1] = K /\ ~IsUnion(e)
                                              /\ ~IsAmbiguous(e)}}
      \cap DynamicKeys

\* the keys reached from the keys Ks in at most n steps through keys
\* registered by a type
RECURSIVE Reached(_, _)
Reached(Ks, n) ==
    IF n = 0 THEN Ks
    ELSE Reached(Ks \cup UNION {DependsOn(K) : K \in Ks}, n - 1)

\* a key registered by a type depends on itself, directly or through keys
\* registered by a type only
HasCycle == \E K \in DynamicKeys : K \in Reached(DependsOn(K), MaxRegs)

\* no dependency is a Union, ambiguous or missing
AllResolve ==
    \A d \in Dependencies : ~IsUnion(d) /\ ~IsAmbiguous(d) /\ ~IsMissing(d)

\* every alias name has exactly one target, a registered key
AliasesResolve ==
    /\ \A n \in 1..Len(aliases) :
          Cardinality(aliases[n].value) = 1 /\ aliases[n].value \subseteq Keys(cmap)
    /\ \A n \in 1..Len(exact_aliases) : Has(cmap, exact_aliases[n].value)

\* the state is the one a call of build_provider left
JustBuilt == outcome.op = "build_provider"

\* the statement of C7 as the specification gives it: whenever a key bound
\* to a Dynamic resolver depends on itself, directly or transitively through
\* Dynamic resolvers only, build_provider raises CircularDependencyException
\* and returns no provider.
C7_CycleRaisesCircular ==
    (JustBuilt /\ HasCycle)
        => outcome.exc = "CircularDependencyException" /\ outcome.ret = None

\* C7, amended: whenever a key bound to a Dynamic resolver depends on itself,
\* directly or transitively through Dynamic resolvers only, build_provider
\* raises and returns no provider; the exception is
\* CircularDependencyException when every dependency of every registered
\* type resolves to a registered key.
C7_CycleFailsBuild ==
    (JustBuilt /\ HasCycle)
        => /\ outcome.exc # "" /\ outcome.ret = None
           /\ AllResolve => outcome.exc = "CircularDependencyException"

\* C7, the case: a build of a configuration with a cycle raised
\* CircularDependencyException
C7_CycleBuilt ==
    JustBuilt /\ HasCycle /\ AllResolve /\ Len(cmap) = MaxRegs
        /\ outcome.exc = "CircularDependencyException"

\* C8: build_provider raises CircularDependencyException only when a cycle
\* runs entirely through Dynamic resolvers; a configuration whose cycles of
\* types all hold a key registered by factory or by instance, and an acyclic
\* one whose types share a dependency, every dependency and alias target
\* being registered, builds successfully.
C8_OnlyDynamicCyclesRaise ==
    JustBuilt
        => /\ outcome.exc = "CircularDependencyException" => HasCycle
           /\ (~HasCycle /\ AllResolve /\ AliasesResolve) => outcome.exc = ""

\* C8, the case: a provider built from a cycle of two types of which one is
\* registered by factory or by instance
C8_BrokenCycleBuilt ==
    /\ JustBuilt /\ outcome.exc = "" /\ outcome.ret # None
    /\ \E K \in DynamicKeys, F \in Keys(cmap) \ DynamicKeys :
          /\ \E d \in Dependencies : d[1] = K /\ KeyOf(d) = F
          /\ \E a \in 1..Len(ClassTable[F].params) :
                ClassTable[F].params[a].annotation = K

\* the statement of C9 as the specification gives it: after a build that
\* succeeded, a get with a live scope, or with none, never fails for a key
\* or name present in the provider; its only failure is
\* CannotResolveTypeException, for a key or name that is not in the provider.
C9_GetFailsOnlyForUnknownKey ==
    \A i \in 1..Len(gets) :
        (gets[i].live /\ gets[i].exc # "")
        => /\ gets[i].exc = "CannotResolveTypeException"
           /\ gets[i].key \notin DOMAIN providers[gets[i].provider].types
           /\ gets[i].name \notin DOMAIN providers[gets[i].provider].names

\* C9, the case: a get made with no scope, of a key that the provider
\* holds, ended with the AssertionError of the Transient Producer, which
\* takes the scope that Services.get made for a scope of another class
C9_GetRaisedAssertion ==
    \E i \in 1..Len(gets) :
        /\ gets[i].live /\ gets[i].scope = None
        /\ gets[i].key \in DOMAIN providers[gets[i].provider].types
        /\ gets[i].exc = "AssertionError"

\* the statement of C10 as the specification gives it: if a dependency of a
\* registered type resolves to a key that is not in the registry,
\* build_provider fails with CannotResolveParameterException for that
\* parameter and that type.
C10_MissingRaisesForParameter ==
    \A d \in Dependencies :
        (JustBuilt /\ IsMissing(d))
        => outcome = Raised("build_provider", "CannotResolveParameterException",
                            ParamOf(d).name, Lookup(cmap, d[1]).concrete_type)

\* C10, amended: if a dependency of a registered type resolves to a key that
\* is not in the registry, build_provider fails; unless the configuration
\* also holds a cycle, a Union or an ambiguous dependency, the exception is
\* CannotResolveParameterException for such a parameter and its type, for
\* each of the three lifetimes of the dependent.
C10_MissingFailsBuild ==
    (JustBuilt /\ \E d \in Dependencies : IsMissing(d))
    => /\ outcome.exc # "" /\ outcome.ret = None
       /\ (/\ ~HasCycle
           /\ \A e \in Dependencies : ~IsUnion(e) /\ ~IsAmbiguous(e))
          => \E d \in Dependencies :
                /\ IsMissing(d)
                /\ outcome = Raised("build_provider",
                                    "CannotResolveParameterException",
                                    ParamOf(d).name,
                                    Lookup(cmap, d[1]).concrete_type)

\* C10, the case: a build failed for the missing dependency of a Scoped
\* dependent, other types being registered too
C10_MissingOfScopedDependent ==
    /\ JustBuilt /\ Len(cmap) > 1
    /\ outcome.exc = "CannotResolveParameterException"
    /\ \E d \in Dependencies :
          /\ IsMissing(d)
          /\ Lookup(cmap, d[1]).life_style = SCOPED
          /\ outcome.param = ParamOf(d).name
          /\ outcome.type = Lookup(cmap, d[1]).concrete_type

(***************************************************************************)
(* The registry and the alias tables.                                      *)
(***************************************************************************)
\* the step is the registration call `call`, through one of the entry points
Registers(call) ==
    \/ AddExact(call)
    \/ BindTypes(call)
    \/ AddInstance(call)
    \/ RegisterFactory(call)

\* C11: a call that registers a key (a call that binds the key when the key
\* is free), made through any entry point and with any lifetime while the
\* key is bound, fails with OverridingServiceException and leaves the
\* registry unchanged: the bindings, their lifetimes and the alias tables.
C11_OverridingLeavesRegistry ==
    [][\A call \in world.calls :
          (Registers(call) /\ Has(cmap, call.key) /\ call.arity <= 2
             /\ issubclass(call.concrete_type, call.key)
             /\ ~ClassTable[call.concrete_type].abstract)
          => /\ outcome'.exc = "OverridingServiceException"
             /\ cmap' = cmap
             /\ aliases' = aliases
             /\ exact_aliases' = exact_aliases]_vars

\* C11, the case: a factory was refused for a key bound before, other keys
\* and their aliases being in the registry
C11_SecondBindingRefused ==
    /\ outcome.op = "register_factory"
    /\ outcome.exc = "OverridingServiceException"
    /\ Has(cmap, outcome.type)
    /\ Len(cmap) > 1 /\ aliases # <<>>

\* C12: a parameter with a declared type is resolved by that type only: in
\* every built provider the Producer compiled for such a parameter is a
\* Producer of the concrete type registered for the declared type, whatever
\* the alias tables hold for the name of the parameter and whatever key
\* matches that name.
C12_DeclaredTypeWins ==
    \A Q \in 1..Len(providers) :
        \A D \in DOMAIN providers[Q].types :
            LET p == producers[ProducerOf(Q, D)]
            IN  \A a \in 1..Len(p.args) :
                    LET K == ClassTable[p.type].params[a].annotation
                    IN  K \notin {Empty, Union}
                            => /\ Has(cmap, K)
                               /\ producers[p.args[a]].type
                                      = Lookup(cmap, K).concrete_type

\* C12, the case: a provider built from P(e: A) with the key E registered
\* and the name e an exact alias of E and an inferred alias of E
C12_NamedAsAnotherKey ==
    /\ JustBuilt /\ outcome.ret # None
    /\ {"P", "A", "E"} \subseteq DOMAIN providers[outcome.ret].types
    /\ Has(exact_aliases, <<"e">>) /\ Lookup(exact_aliases, <<"e">>) = "E"
    /\ Candidates(<<"e">>) = {"E"}

\* the Producer compiled, in the provider Q, for the dependency d
ArgOf(Q, d) == producers[producers[ProducerOf(Q, d[1])].args[d[2]]]

\* C13: in a container that is not strict, a parameter with no declared
\* type is resolved by the exact alias of its name when one is set, else by
\* the single inferred candidate of its name; when the name has several
\* inferred candidates and no exact alias the build fails: no candidate is
\* picked silently.
C13_UntypedByAliasOrFail ==
    (JustBuilt /\ ~strict)
        => /\ (\E d \in Dependencies : IsAmbiguous(d)) => outcome.ret = None
           /\ outcome.ret # None
                  => \A d \in Dependencies :
                         ParamOf(d).annotation = Empty
                             => /\ Has(cmap, KeyOf(d))
                                /\ ArgOf(outcome.ret, d).type
                                       = Lookup(cmap, KeyOf(d)).concrete_type

\* C13, the case: the build failed for a parameter whose name has two
\* candidates, both registered, and no exact alias
C13_TwoCandidates ==
    /\ JustBuilt /\ outcome.ret = None /\ outcome.exc = "AssertionError"
    /\ \E d \in Dependencies :
          /\ IsAmbiguous(d)
          /\ Candidates(ParamOf(d).name) \subseteq Keys(cmap)

\* a registered type has a parameter with no declared type
HasUntyped == \E d \in Dependencies : ParamOf(d).annotation = Empty

\* a registered type has a parameter declared as a Union or Optional
HasUnion == \E d \in Dependencies : IsUnion(d)

\* the statement of C14 as the specification gives it: in a strict
\* container any dependency with no declared type makes build_provider fail
\* with CannotResolveParameterException, also when a registered key matches
\* its name, and binding adds no inferred alias.
C14_StrictUntypedRaises ==
    /\ (JustBuilt /\ strict /\ HasUntyped)
           => outcome.exc = "CannotResolveParameterException" /\ outcome.ret = None
    /\ strict => aliases = <<>>

\* C14, amended: in a strict container any dependency with no declared type
\* makes build_provider fail, also when a registered key matches its name;
\* the exception is CannotResolveParameterException unless the registry
\* also holds a dependency cycle or a Union-typed parameter.  Binding adds
\* no inferred alias, and no exact alias can be set.
C14_StrictUntypedFailsBuild ==
    /\ (JustBuilt /\ strict /\ HasUntyped)
           => /\ outcome.ret = None
              /\ (~HasCycle /\ ~HasUnion)
                     => outcome.exc = "CannotResolveParameterException"
    /\ strict => aliases = <<>> /\ exact_aliases = <<>>

\* C14, the case: the build of a strict container failed for the parameter
\* a of R, the key A being registered before R
C14_StrictWithMatchingKey ==
    /\ JustBuilt /\ strict
    /\ outcome.exc = "CannotResolveParameterException"
    /\ outcome.param = <<"a">> /\ outcome.type = "R"
    /\ \E i, j \in 1..Len(cmap) : i < j /\ cmap[i].key = "A" /\ cmap[j].key = "R"

\* C15: add_alias fails with AliasAlreadyDefined whenever the name is present
\* as an exact alias or as an inferred alias, the name variants derived from
\* a registered key included, and leaves both alias tables unchanged.
C15_AddAliasRefused ==
    [][\A call \in world.calls :
          (AddAlias(call)
             /\ (Has(aliases, call.name) \/ Has(exact_aliases, call.name)))
          => /\ outcome'.exc = "AliasAlreadyDefined"
             /\ aliases' = aliases
             /\ exact_aliases' = exact_aliases]_vars

\* C15, the case: add_alias was refused for the name n, which no call
\* aliased: it is the lowercase name of the registered key N
C15_DerivedNameRefused ==
    /\ outcome.op = "add_alias" /\ outcome.exc = "AliasAlreadyDefined"
    /\ outcome.param = <<"n">> /\ outcome.type = "A"
    /\ ~Has(exact_aliases, <<"n">>)
    /\ Candidates(<<"n">>) = {"N"}

\* every name of the exact-alias table of the next state has one target
OneTargetEach ==
    \A i, j \in 1..Len(exact_aliases') :
        exact_aliases'[i].key = exact_aliases'[j].key => i = j

\* the statement of C16 as the specification gives it: in a container that
\* is not strict, set_alias without override fails with AliasAlreadyDefined
\* when the name is already aliased, whether exactly or by inference, and
\* keeps the existing target; with override it replaces the target; each
\* exact-alias name has exactly one target.
C16_SetAliasRefusedWhenAliased ==
    [][\A call \in world.calls :
          (SetAlias(call) /\ ~strict)
          => /\ (~call.override
                   /\ (Has(exact_aliases, call.name) \/ Has(aliases, call.name)))
                    => /\ outcome'.exc = "AliasAlreadyDefined"
                       /\ exact_aliases' = exact_aliases
             /\ call.override
                    => Lookup(exact_aliases', call.name) = call.key
             /\ OneTargetEach]_vars

\* C16, amended: in a container that is not strict, set_alias without
\* override fails with AliasAlreadyDefined when the name already has an
\* exact alias, and keeps the existing target; with override it replaces
\* the target; each exact-alias name has exactly one target.
C16_SetAliasRefusedWhenExact ==
    [][\A call \in world.calls :
          (SetAlias(call) /\ ~strict)
          => /\ (~call.override /\ Has(exact_aliases, call.name))
                    => /\ outcome'.exc = "AliasAlreadyDefined"
                       /\ exact_aliases' = exact_aliases
             /\ call.override
                    => Lookup(exact_aliases', call.name) = call.key
             /\ OneTargetEach]_vars

\* C16, the case: set_alias without override was refused for a name whose
\* exact alias has another target, and that target is kept
C16_ExistingTargetKept ==
    /\ outcome.op = "set_alias" /\ outcome.exc = "AliasAlreadyDefined"
    /\ Has(exact_aliases, outcome.param)
    /\ Lookup(exact_aliases, outcome.param) # outcome.type

\* the targets of an alias name: its inferred candidates and its exact target
Targets(name) ==
    Candidates(name) \cup
    (IF Has(exact_aliases, name) THEN {Lookup(exact_aliases, name)} ELSE {})

AliasNames == Keys(aliases) \cup Keys(exact_aliases)

\* an alias name has a target that is not registered
HasUnregisteredTarget == \E name \in AliasNames : ~(Targets(name) \subseteq Keys(cmap))

\* C17: if any alias name, inferred or exact, has a target that was never
\* registered, build_provider fails with AliasConfigurationError; and no
\* alias name of a built provider maps to a Producer of a key other than
\* one of the targets of that alias.
C17_UnregisteredTargetRaises ==
    (JustBuilt /\ ~strict)
        => /\ HasUnregisteredTarget
                  => outcome.exc = "AliasConfigurationError" /\ outcome.ret = None
           /\ outcome.ret # None
                  => \A name \in AliasNames :
                         /\ name \in DOMAIN providers[outcome.ret].names
                         /\ providers[outcome.ret].names[name]
                                \in {ProducerOf(outcome.ret, t) :
                                        t \in Targets(name) \cap Keys(cmap)}

\* C17, the failing case: a provider was built although the name n, made an
\* alias of the key A that was never registered, is also a name of the
\* registered key N
C17_BuiltWithUnregisteredTarget ==
    /\ JustBuilt /\ outcome.ret # None
    /\ Candidates(<<"n">>) = {"A", "N"}
    /\ ~Has(cmap, "A")
    /\ providers[outcome.ret].names[<<"n">>] = ProducerOf(outcome.ret, "N")

\* C17, what holds of it: every alias name of a provider just built maps to
\* the Producer of one of its registered targets
C17_AliasMapsToTarget ==
    (JustBuilt /\ ~strict /\ outcome.ret # None)
        => \A name \in AliasNames :
               /\ name \in DOMAIN providers[outcome.ret].names
               /\ providers[outcome.ret].names[name]
                      \in {ProducerOf(outcome.ret, t) :
                              t \in Targets(name) \cap Keys(cmap)}

\* the i-th get asked for the key K: by the type, by its class name or by
\* a name that is an alias of it
AsksFor(i, K) ==
    \/ gets[i].key = K
    \/ /\ gets[i].name # <<>>
       /\ gets[i].name = class_name(K) \/ K \in Targets(gets[i].name)

\* C20: in a built provider the entry for the class name of a key and the
\* entry for every alias of the key are the Producer object of the key's own
\* entry; and for a Singleton key, get by type, get by class name and get by
\* alias return the identical instance.
C20_NamesShareProducer ==
    /\ (JustBuilt /\ outcome.ret # None)
           => \A K \in Keys(cmap) :
                  /\ providers[outcome.ret].names[class_name(K)]
                         = ProducerOf(outcome.ret, K)
                  /\ \A name \in AliasNames :
                         K \in Targets(name)
                             => providers[outcome.ret].names[name]
                                    = ProducerOf(outcome.ret, K)
    /\ \A K \in Keys(cmap) :
           Lookup(cmap, K).life_style = SINGLETON
               => \A i, j \in 1..Len(gets) :
                      (/\ AsksFor(i, K) /\ AsksFor(j, K)
                       /\ gets[i].provider = gets[j].provider
                       /\ gets[i].exc = "" /\ gets[j].exc = "")
                          => gets[i].val = gets[j].val

\* C20, the failing case: the Singleton key E, whose only alias names are
\* those derived from its class name, was got by type and then by the name
\* e, and the two gets returned two instances
C20_TypeAndNameDiffer ==
    /\ Len(gets) = 2
    /\ Has(cmap, "E") /\ Lookup(cmap, "E").life_style = SINGLETON
    /\ gets[1].key = "E" /\ gets[2].name = <<"e">>
    /\ Targets(<<"e">>) = {"E"}
    /\ gets[1].exc = "" /\ gets[2].exc = ""
    /\ gets[1].val # gets[2].val

(***************************************************************************)
(* Defaults and registered instances.                                      *)
(***************************************************************************)
\* the provider of the i-th get has no Producer for the key or the name
\* that was asked for
NoProducer(i) ==
    IF gets[i].name = <<>>
    THEN gets[i].key \notin DOMAIN providers[gets[i].provider].types
    ELSE gets[i].name \notin DOMAIN providers[gets[i].provider].names

\* the statement of C18 as the specification gives it: a get of a key with
\* no Producer returns the supplied default when one is given, None
\* included, and fails with CannotResolveTypeException when none is given;
\* a get of a key with a Producer never returns the default.
C18_DefaultForUnknownKey ==
    \A i \in 1..Len(gets) :
        IF NoProducer(i)
        THEN IF gets[i].default # Ellipsis
             THEN gets[i].exc = "" /\ gets[i].val = gets[i].default
             ELSE gets[i].exc = "CannotResolveTypeException"
        ELSE gets[i].default # Ellipsis
                 => ~(gets[i].exc = "" /\ gets[i].val = gets[i].default)

\* C18, amended: a get of a key with no Producer, made with no scope or
\* with a scope that is not disposed and holds no value for the key,
\* returns the supplied default when one is given, None included, and fails
\* with CannotResolveTypeException when none is given; a get of a key with
\* a Producer never returns the default.
C18_DefaultUnlessScopeHolds ==
    \A i \in 1..Len(gets) :
        IF NoProducer(i)
        THEN (gets[i].live /\ gets[i].cached = None)
                 => IF gets[i].default # Ellipsis
                    THEN gets[i].exc = "" /\ gets[i].val = gets[i].default
                    ELSE gets[i].exc = "CannotResolveTypeException"
        ELSE gets[i].default # Ellipsis
                 => ~(gets[i].exc = "" /\ gets[i].val = gets[i].default)

\* C18, the case: gets of the key B, which has no Producer, returned the
\* default None and the default object
C18_DefaultsReturned ==
    /\ Len(gets) = 2
    /\ NoProducer(1) /\ NoProducer(2)
    /\ gets[1].key = "B" /\ gets[2].key = "B"
    /\ gets[1].default = None /\ gets[1].exc = "" /\ gets[1].val = None
    /\ gets[2].default > None /\ gets[2].exc = ""
    /\ gets[2].val = gets[2].default

\* the keys registered with an instance
InstanceKeys == {K \in Keys(cmap) : Lookup(cmap, K).kind = "InstanceResolver"}

\* C19: for a key registered with a pre-built instance, every activation
\* yields the registered instance: a get with any scope or with none, by the
\* type or by a name of the key, and the injection into a dependent, on
\* every provider built from the container, one built again after later
\* registrations included.
C19_RegisteredInstanceYielded ==
    \A K \in InstanceKeys :
        \A i \in 1..Len(gets) :
            gets[i].exc = ""
                => /\ (AsksFor(i, K) /\ ~NoProducer(i))
                          => gets[i].val = Lookup(cmap, K).instance
                   /\ gets[i].val # None
                          => \A a \in 1..Len(ClassTable[heap[gets[i].val].cls].params) :
                                 ClassTable[heap[gets[i].val].cls].params[a].annotation = K
                                     => heap[gets[i].val].fields[a]
                                            = Lookup(cmap, K).instance

\* C19, the failing case: a get of the key A, registered with an instance,
\* returned the instance that a get of the Scoped key IA, whose concrete
\* type is A, had left in the scope
C19_ScopedInsteadOfInstance ==
    /\ Len(gets) = 2
    /\ "A" \in InstanceKeys
    /\ gets[1].key = "IA" /\ gets[2].key = "A"
    /\ gets[1].scope # None /\ gets[2].scope = gets[1].scope
    /\ gets[2].exc = ""
    /\ gets[2].val = gets[1].val
    /\ gets[2].val # Lookup(cmap, "A").instance

(***************************************************************************)
(* Factories.                                                              *)
(***************************************************************************)
\* the statement of C21 as the specification gives it: register_factory
\* fails with InvalidFactory for a factory with more than 2 parameters and
\* with MissingTypeException for a factory with neither an explicit nor an
\* annotated return type, and after either failure the registry is
\* unchanged.
C21_FactoryRefusedByArityAndType ==
    [][\A call \in world.calls :
          RegisterFactory(call)
          => /\ call.arity > 2
                    => outcome'.exc = "InvalidFactory" /\ UNCHANGED container
             /\ call.key = ""
                    => outcome'.exc = "MissingTypeException" /\ UNCHANGED container]_vars

\* C21, amended: register_factory fails with MissingTypeException for a
\* factory with neither an explicit nor an annotated return type, whatever
\* its parameters, and with InvalidFactory for a factory with a known return
\* type and more than 2 parameters; after either failure the registry is
\* unchanged; a factory with a known return type and 0, 1 or 2 parameters
\* is bound when the return type is free.
C21_FactoryRefusedByTypeThenArity ==
    [][\A call \in world.calls :
          RegisterFactory(call)
          => /\ (call.arity > 2 /\ call.key # "")
                    => outcome'.exc = "InvalidFactory" /\ UNCHANGED container
             /\ call.key = ""
                    => outcome'.exc = "MissingTypeException" /\ UNCHANGED container
             /\ (call.arity <= 2 /\ call.key # "" /\ ~Has(cmap, call.key))
                    => outcome'.exc = "" /\ Has(cmap', call.key)]_vars

\* C21, the case: a factory of three parameters was refused for a return
\* type that is free, other keys being bound
C21_ThreeParametersRefused ==
    /\ outcome.op = "register_factory" /\ outcome.exc = "InvalidFactory"
    /\ outcome.type = "N" /\ ~Has(cmap, "N")
    /\ cmap # <<>>

\* the instance v was made by a transient factory of two parameters, which
\* is invoked anew for every dependent
ByTwoParameterFactory(v) ==
    /\ v # None /\ heap[v].by # None
    /\ producers[heap[v].by].kind = "FactoryTypeProvider"
    /\ producers[heap[v].by].factory = UserFactory(2, "new")

\* C22: a factory of two parameters that is invoked to supply a dependency
\* of a type receives the concrete type of that type, whether the type
\* declares its dependencies by constructor parameters or by annotated
\* fields and whether it is the requested key or a nested dependency, and
\* receives its own key when that key is requested directly by get.
C22_FactoryReceivesDependent ==
    /\ \A h \in 1..Len(heap) : \A a \in 1..Len(heap[h].fields) :
          (heap[h].by # None /\ ByTwoParameterFactory(heap[h].fields[a]))
          => heap[heap[h].fields[a]].act = heap[h].cls
    /\ \A i \in 1..Len(gets) :
          (gets[i].exc = "" /\ gets[i].key # "" /\ gets[i].fresh
              /\ ByTwoParameterFactory(gets[i].val))
          => heap[gets[i].val].act = gets[i].key

\* C22, the case: an instance with annotated fields was made as the
\* dependency of another type, and the factory that filled its field
\* received the type of the dependent
C22_NestedAnnotatedField ==
    \E u \in 1..Len(heap) :
       /\ heap[u].cls = "U" /\ heap[u].by # None
       /\ heap[u].fields[1] # None
       /\ heap[heap[u].fields[1]].cls = "H"
       /\ ByTwoParameterFactory(heap[heap[u].fields[1]].fields[1])
       /\ heap[heap[heap[u].fields[1]].fields[1]].act = "U"

(***************************************************************************)
(* Rebuilt providers, functions executed by a provider and values set on   *)
(* a provider.                                                             *)
(***************************************************************************)
\* a singleton made by a class, under a base key and by a factory, in a
\* container that is asked to resolve before and after a registration
WorldResolve ==
    [World(FALSE,
           {Exact("A", SINGLETON), Bound("IA", "A", SINGLETON),
            Fact("N", SINGLETON, 0, "new")},
           {"A", "IA", "N"}, {}, {})
     EXCEPT !.builds = MaxRebuilds]

\* functions of one parameter, declared with a type or with a name only,
\* that return or raise, executed by a provider whose Scoped key has a
\* Transient or a Singleton dependent
WorldExec ==
    [World(FALSE,
           {Exact("A", SCOPED), Exact("B", TRANSIENT), Exact("B", SINGLETON),
            Alias(<<"x">>, "A"), Exactly(<<"y">>, "A", FALSE)},
           {"A"}, {<<"x">>}, {})
     EXCEPT !.methods = {Method(<<Param(<<"a">>, "A")>>, FALSE),
                         Method(<<Param(<<"a">>, "A")>>, TRUE),
                         Method(<<Param(<<"b">>, "B")>>, FALSE),
                         Method(<<Param(<<"y">>, Empty)>>, FALSE),
                         Method(<<Param(<<"a">>, "A"), Param(<<"b">>, "B")>>, FALSE)}]

\* functions executed with a value given for a key of any lifetime, a
\* concrete or a base key, that is a parameter of the function or of a
\* dependency
WorldGiven ==
    [World(FALSE,
           {Exact("A", l) : l \in ServiceLifeStyle}
             \cup {Bound("IA", "A", SCOPED), Exact("B", TRANSIENT),
                   Exact("D", TRANSIENT)},
           {}, {}, {"A", "IA"})
     EXCEPT !.methods = {Method(<<Param(<<"a">>, "A")>>, FALSE),
                         Method(<<Param(<<"b">>, "B")>>, FALSE),
                         Method(<<Param(<<"a">>, "IA")>>, FALSE),
                         Method(<<Param(<<"d">>, "D")>>, FALSE)}]

\* a function, a coroutine function that returns and one that raises,
\* executed by a provider of a Scoped key and its Transient dependent, with
\* or without a value given for the Scoped key
WorldAsync ==
    [World(FALSE, {Exact("A", SCOPED), Exact("B", TRANSIENT)}, {}, {}, {"A"})
     EXCEPT !.methods = {Method(<<Param(<<"a">>, "A")>>, FALSE),
                         AsyncMethod(<<Param(<<"a">>, "A")>>, FALSE),
                         AsyncMethod(<<Param(<<"b">>, "B")>>, TRUE),
                         AsyncMethod(<<Param(<<"c">>, "C")>>, FALSE)}]

\* a function that @inject() decorated and one that it did not, executed
\* by a provider of a Scoped key, with or without a value given for the key
WorldRefused ==
    [World(FALSE, {Exact("A", SCOPED)}, {}, {}, {"A"})
     EXCEPT !.methods = {Method(<<Param(<<"a">>, "A")>>, FALSE),
                         NotInjected(<<Param(<<"a">>, "A")>>)}]

CallWorlds == {WorldResolve, WorldExec, WorldGiven, WorldAsync, WorldRefused}

InitCalls == Start(CallWorlds)

NextCalls ==
    \/ Next
    \/ Resolve
    \/ Exec
    \/ Drive
    \/ Resume

\* applications that resolve from the container
SpecCalls == InitCalls /\ [][NextCalls]_vars

\* the producer of the key of the get i in the provider of the get, or None
ProducerAsked(i) ==
    IF gets[i].key \in DOMAIN providers[gets[i].provider].types
    THEN providers[gets[i].provider].types[gets[i].key]
    ELSE None

\* the get i returned an instance for a key of Singleton lifetime
SingletonGot(i) ==
    /\ gets[i].exc = "" /\ gets[i].val # None /\ gets[i].cached = None
    /\ ProducerAsked(i) # None
    /\ producers[ProducerAsked(i)].kind
          \in {"SingletonTypeProvider", "SingletonFactoryTypeProvider"}

\* C23: rebuilding resets singleton state: the instance a provider returns
\* for a Singleton key was made by the Producer of that provider, never
\* through another provider of the same container; the first get on a
\* newly built provider constructs the instance; and the provider that the
\* container holds for resolve is one built after the last registration.
C23_RebuildResetsSingletons ==
    /\ \A j \in 1..Len(gets) :
          SingletonGot(j)
          => /\ heap[gets[j].val].by = ProducerAsked(j)
             /\ \A i \in 1..Len(gets) :
                   (i # j /\ SingletonGot(i)
                       /\ gets[i].provider # gets[j].provider)
                   => gets[i].val # gets[j].val
             /\ (\A i \in 1..(j - 1) : gets[i].provider # gets[j].provider)
                   => gets[j].fresh
    /\ cprovider # None
          => \A k \in 1..Len(cmap) :
                cmap[k].key \in DOMAIN providers[cprovider].types

\* C23, the case: resolve returned a singleton, a key was registered, and
\* resolve returned another instance for the same key from the provider it
\* rebuilt
C23_ResolvedAfterRegistration ==
    /\ Len(gets) = 2 /\ cprovider = 2
    /\ gets[1].provider = 1 /\ gets[2].provider = 2
    /\ gets[1].key = gets[2].key
    /\ SingletonGot(1) /\ SingletonGot(2)
    /\ gets[1].val # gets[2].val
    /\ Len(cmap) > Cardinality(DOMAIN providers[1].types)

(***************************************************************************)
(* Scopes of either class.  The caller makes a scope of the class of       *)
(* rodi/activation_scope.py or of the class of rodi/services.py; the       *)
(* second has a get of its own.                                            *)
(***************************************************************************)
\* scope.get(desired_type, other, default=default) of a scope of the class
\* of rodi/services.py: a scope with no provider raises TypeError, any other
\* has its provider get the key with the scope passed or, when none is, with
\* the scope itself
ScopeGet ==
    \E self \in CallerScopes, desired_type \in world.asks,
       scope \in {None} \cup CallerScopes, default \in Defaults :
       /\ scopes[self].class = ServicesScopeClass
       /\ IF scopes[self].provider = None
          THEN /\ outcome' = Raised("ActivationScope.get", "TypeError", <<>>,
                                    desired_type)
               /\ UNCHANGED <<world, container, heap, producers, providers,
                              scopes, gets>>
          ELSE /\ Len(gets) < MaxGets
               /\ Got(scopes[self].provider, desired_type, <<>>,
                      IF scope = None THEN self ELSE scope, default,
                      ServicesGet(scopes[self].provider, desired_type,
                                  IF scope = None THEN self ELSE scope, default))

\* a Scoped class, the same key made by a Transient factory, a class
\* without __init__ as Transient and as Singleton, and a Transient class
\* with an annotated field; scopes of both classes, empty or seeded
WorldScopes ==
    [World(FALSE,
           {Exact("A", SCOPED), Fact("A", TRANSIENT, 1, "new"),
            Exact("N", TRANSIENT), Exact("N", SINGLETON), Exact("H", TRANSIENT)},
           {"A", "N", "H"}, {}, {"A"})
     EXCEPT !.scope_classes = {ScopeClass, ServicesScopeClass}]

InitScopes == Start({WorldScopes})

NextScopes ==
    \/ Register
    \/ BuildProvider
    \/ NewScope
    \/ Dispose
    \/ Enter
    \/ Get
    \/ ScopeGet

\* applications that make scopes of both classes
SpecScopes == InitScopes /\ [][NextScopes]_vars

(***************************************************************************)
(* Disposed scopes.                                                        *)
(***************************************************************************)
\* C24: after dispose a scope holds no cached instance and no provider
\* reference and is unusable: every later get with that scope, while it is
\* not entered again, fails, whatever its cache held and whatever the
\* lifetime of the key.
C24_DisposedScopeUnusable ==
    /\ \A s \in 1..Len(scopes) :
          ~scopes[s].live
          => /\ scopes[s].provider = None
             /\ scopes[s].none \/ scopes[s].scoped_services = EmptyDict
    /\ \A i \in 1..Len(gets) :
          (gets[i].scope # None /\ ~gets[i].live) => gets[i].exc # ""

\* C24, the case: a scope whose cache was empty was disposed, and a get
\* with it returned an instance made by the call
C24_DisposedEmptyScopeUsed ==
    \E i \in 1..Len(gets) :
       /\ gets[i].scope # None /\ ~gets[i].live /\ gets[i].uses = 0
       /\ gets[i].exc = "" /\ gets[i].val # None /\ gets[i].fresh

(***************************************************************************)
(* Functions executed by a provider.                                       *)
(***************************************************************************)
\* the kinds of Producer that a Scoped registration compiles to
ScopedKinds ==
    {"ScopedTypeProvider", "ScopedArgsTypeProvider", "ScopedFactoryTypeProvider"}

\* the instances of the object graph of the instance v, to the depth n; the
\* graph below an instance made by a Singleton Producer is followed when
\* shared is TRUE
RECURSIVE Graph(_, _, _)
Graph(v, n, shared) ==
    IF v = None \/ n = 0 THEN {}
    ELSE IF ~shared /\ heap[v].by # None
                    /\ producers[heap[v].by].kind \notin UnsharedKinds
    THEN {v}
    ELSE {v} \cup UNION {Graph(heap[v].fields[f], n - 1, shared) :
                           f \in 1..Len(heap[v].fields)}

\* the instances made by a Scoped Producer in what the get i returned
ScopedMade(i, shared) ==
    {v \in Graph(gets[i].val, MaxRegs, shared) :
        heap[v].by # None /\ producers[heap[v].by].kind \in ScopedKinds}

\* the gets i and j were made by the getters of two invocations
TwoInvocations(i, j) ==
    gets[i].scope < 0 /\ gets[j].scope < 0 /\ gets[i].scope # gets[j].scope

\* the scope of the last invocation is disposed
InvocationDisposed ==
    outcome.op = "exec"
    => /\ ~outcome.scope.live
       /\ outcome.scope.provider = None
       /\ outcome.scope.none \/ outcome.scope.scoped_services = EmptyDict

\* the gets of the invocation that has just ended
LastInvocation ==
    {i \in 1..Len(gets) : gets[i].scope = outcome.id}

\* the instances made by a Scoped Producer in an earlier invocation that the
\* invocation that has just ended received, the values that the caller gave
\* it set aside
MadeEarlier(shared) ==
    IF outcome.op # "exec" THEN {}
    ELSE UNION {ScopedMade(i, shared) \cap ScopedMade(j, shared) :
                  i \in {k \in 1..Len(gets) : /\ gets[k].scope < 0
                                               /\ \A l \in LastInvocation : k < l},
                  j \in {k \in LastInvocation : gets[k].scope < 0}}
           \ {outcome.given[K] : K \in DOMAIN outcome.given}

\* the statement of C25 as the specification gives it: every invocation of
\* exec or of an executor runs in its own scope, which is disposed when the
\* invocation ends, on normal return and on raise, and an instance made by
\* a Scoped Producer in one invocation is in no object that a later
\* invocation receives from the provider.
C25_InvocationScoped ==
    /\ InvocationDisposed
    /\ MadeEarlier(TRUE) = {}

\* C25, amended: every invocation runs in its own scope, which is disposed
\* when the invocation ends, on normal return and on raise, and an instance
\* made by a Scoped Producer in one invocation is not reused by a later
\* one, unless an instance of Singleton lifetime holds it.
C25_InvocationScopedButSingletons ==
    /\ InvocationDisposed
    /\ MadeEarlier(FALSE) = {}

\* C25, the case: two invocations received an instance of a Scoped key,
\* the second raised, and its scope, that held an instance, lost its cache
C25_TwoInvocations ==
    /\ Len(gets) = 2 /\ TwoInvocations(1, 2)
    /\ ScopedMade(1, FALSE) # {} /\ ScopedMade(2, FALSE) # {}
    /\ outcome.op = "exec" /\ outcome.exc = "Exception"
    /\ outcome.scope.none

\* the instances that the container made in the graph of v and that have a
\* parameter declared with the key K
DependentsOn(K, v) ==
    {h \in Graph(v, MaxRegs, FALSE) :
        /\ heap[h].by # None
        /\ \E f \in 1..Len(heap[h].fields) :
              ClassTable[heap[h].cls].params[f].annotation = K}

\* C26: when an invocation of exec or of an executor is given a value for a
\* key, that value is what every resolution of the key in the invocation
\* yields, as an argument of the function and as a dependency of an
\* object built for it, whatever the lifetime of the key and whether it is
\* a concrete or a base key.
C26_GivenValueWins ==
    (outcome.op = "exec" /\ Len(gets) > 0 /\ gets[Len(gets)].scope < 0)
    => \A i \in LastInvocation : \A K \in DOMAIN outcome.given :
          gets[i].exc = ""
          => /\ gets[i].key = K => gets[i].val = outcome.given[K]
             /\ \A h \in DependentsOn(K, gets[i].val) :
                   \A f \in 1..Len(heap[h].fields) :
                      ClassTable[heap[h].cls].params[f].annotation = K
                      => heap[h].fields[f] = outcome.given[K]

\* C26, the case: a function of a dependent of a key was executed with a
\* value given for the key, and the dependent built for it holds another
\* instance
C26_GivenButNestedMade ==
    /\ outcome.op = "exec" /\ Len(gets) > 0 /\ gets[Len(gets)].scope < 0
    /\ \E i \in LastInvocation : \E K \in DOMAIN outcome.given :
          /\ gets[i].exc = "" /\ gets[i].key # K
          /\ \E h \in DependentsOn(K, gets[i].val) :
                \E f \in 1..Len(heap[h].fields) :
                   /\ ClassTable[heap[h].cls].params[f].annotation = K
                   /\ heap[h].fields[f] # outcome.given[K]
                   /\ heap[h].fields[f] # None

(***************************************************************************)
(* The cache of a scope.                                                   *)
(***************************************************************************)
\* C27: a Scoped Producer reads and writes the cache of the scope under its
\* registered key: after a get of a Scoped key with a scope the cache holds
\* the returned instance under that key, and two gets of different Scoped
\* keys with one scope (created empty, its cache not discarded in between)
\* return different instances, also when the keys are bound to one
\* concrete type.
C27_ScopedCacheByKey ==
    /\ \A i \in GetsOf(SCOPED) :
          (/\ i = Len(gets) /\ outcome.op = "get"
           /\ gets[i].scope > 0 /\ gets[i].val # None)
          => /\ gets[i].key \in DOMAIN scopes[gets[i].scope].scoped_services
             /\ scopes[gets[i].scope].scoped_services[gets[i].key] = gets[i].val
    /\ \A i, j \in GetsOf(SCOPED) :
          (/\ gets[i].scope > 0 /\ SameScope(i, j) /\ gets[i].uses = gets[j].uses
           /\ ~Seeded(i)
           /\ gets[i].provider = gets[j].provider
           /\ gets[i].key # gets[j].key
           /\ gets[i].val # None /\ gets[j].val # None)
          => gets[i].val # gets[j].val

\* C27, the case: a Scoped base key and the Scoped key of its concrete type
\* were asked for with one scope, and one instance was returned for both
C27_TwoKeysOneEntry ==
    \E i, j \in GetsOf(SCOPED) :
        /\ i < j /\ gets[i].scope > 0 /\ SameScope(i, j) /\ ~Seeded(i)
        /\ gets[i].uses = gets[j].uses
        /\ gets[i].key # gets[j].key
        /\ Lookup(cmap, gets[i].key).concrete_type
             = Lookup(cmap, gets[j].key).concrete_type
        /\ gets[i].val # None /\ gets[i].val = gets[j].val
        /\ ~gets[j].fresh

(***************************************************************************)
(* Threads.  A thread that calls provider.get(key) for a Singleton key is  *)
(* an entry of gets with more fields.  pc is its position in the __call__  *)
(* of the key's Singleton Producer, made the instance that call has        *)
(* constructed and not yet stored, vals the arguments it has evaluated for *)
(* the constructor.  stack holds the calls of Singleton Producers nested   *)
(* in that one, each a frame with the same fields, the innermost last:     *)
(* the Producer of a constructor argument is called in the list            *)
(* comprehension of the enclosing call.  A thread may be suspended between *)
(* any two of the steps of the call it is in: the test of the cell, the    *)
(* evaluation of one argument, the construction, the store into the cell   *)
(* and the read of the cell for the return.                                *)
(***************************************************************************)
SingletonKinds == {"SingletonTypeProvider", "SingletonFactoryTypeProvider"}

\* the Producer that the thread t activates
ThreadProducer(t) == providers[gets[t].provider].types[gets[t].key]

\* a call of a Singleton Producer with the activating type parent
SingletonFrame(pid, parent) ==
    [pid |-> pid, parent |-> parent, pc |-> "check", made |-> None, vals |-> <<>>]

\* the call that the thread t is in
Active(t) ==
    IF gets[t].stack = <<>>
    THEN [pid |-> ThreadProducer(t), parent |-> TypeArg(gets[t].key),
          pc |-> gets[t].pc, made |-> gets[t].made, vals |-> gets[t].vals]
    ELSE gets[t].stack[Len(gets[t].stack)]

\* the thread t with the call it is in at f
At(t, f) ==
    IF gets[t].stack = <<>>
    THEN [gets[t] EXCEPT !.pc = f.pc, !.made = f.made, !.vals = f.vals]
    ELSE [gets[t] EXCEPT !.stack[Len(gets[t].stack)] = f]

\* the Producers whose calls the threads take step by step: a Singleton
\* Producer of a class whose arguments are such Producers or registered
\* instances, and a Singleton Producer of a factory that calls no Producer
RECURSIVE Stepwise(_, _)
Stepwise(prods, pid) ==
    /\ pid # None
    /\ CASE prods[pid].kind = "SingletonTypeProvider" ->
               \A i \in 1..Len(prods[pid].args) :
                  /\ prods[pid].args[i] # None
                  /\ \/ prods[prods[pid].args[i]].kind = "InstanceProvider"
                     \/ Stepwise(prods, prods[pid].args[i])
         [] prods[pid].kind = "SingletonFactoryTypeProvider" ->
               prods[pid].factory.fkind \in {"user", "plain"}
         [] OTHER -> FALSE

\* a thread calls provider.get(key) with no scope: Services.get finds the
\* Producer and calls it
ThreadGet ==
    /\ Len(gets) < MaxThreads
    /\ \E provider \in 1..Len(providers), key \in world.asks :
          /\ key \in DOMAIN providers[provider].types
          /\ Stepwise(producers, providers[provider].types[key])
          /\ gets' = Append(gets,
                            [provider |-> provider, key |-> key, name |-> <<>>,
                             scope |-> None, default |-> Ellipsis, cached |-> None,
                             val |-> None, exc |-> "", fresh |-> FALSE,
                             live |-> TRUE, uses |-> 0,
                             pc |-> "check", made |-> None, vals |-> <<>>,
                             stack |-> <<>>])
    /\ outcome' = Ok("get")
    /\ UNCHANGED <<world, container, heap, producers, providers, scopes>>

\* `if not self._instance:` of SingletonTypeProvider and
\* `if self.instance is None:` of SingletonFactoryTypeProvider
SingletonCheck ==
    \E t \in 1..Len(gets) :
       /\ Active(t).pc = "check"
       /\ gets' = [gets EXCEPT ![t] =
                     At(t, [Active(t) EXCEPT !.pc =
                        IF producers[Active(t).pid].kind = "SingletonTypeProvider"
                        THEN IF ~Truthy(heap, producers[Active(t).pid].instance)
                             THEN "construct" ELSE "return"
                        ELSE IF producers[Active(t).pid].instance = None
                             THEN "construct" ELSE "return"])]
       /\ outcome' = Ok("check")
       /\ UNCHANGED <<world, container, heap, producers, providers, scopes>>

\* the arguments that the call f has yet to evaluate
ArgsLeft(f) ==
    /\ producers[f.pid].kind = "SingletonTypeProvider"
    /\ Len(f.vals) < Len(producers[f.pid].args)

\* the scope that Services.get made for a thread
ThreadContext ==
    [heap |-> heap, prods |-> producers, cache |-> EmptyDict,
     class |-> ServicesScopeClass]

\* what the call of an InstanceProvider for an argument of the call f of the
\* thread t leaves behind, r being its result
Evaluated(t, f, r) ==
    /\ heap' = r.st.heap
    /\ producers' = r.st.prods
    /\ gets' = [gets EXCEPT ![t] =
                  IF r.exc # ""
                  THEN [gets[t] EXCEPT !.exc = r.exc, !.pc = "done", !.stack = <<>>]
                  ELSE At(t, [f EXCEPT !.vals = Append(@, r.val)])]

\* one `fn(context, self._type)` of the list comprehension: the call of a
\* Singleton Producer begins, the call of an InstanceProvider is made
SingletonArg ==
    \E t \in 1..Len(gets) :
       /\ Active(t).pc = "construct"
       /\ ArgsLeft(Active(t))
       /\ LET f == Active(t)
              fn == producers[f.pid].args[Len(f.vals) + 1]
          IN  IF producers[fn].kind \in SingletonKinds
              THEN /\ gets' = [gets EXCEPT ![t].stack =
                                 Append(@, SingletonFrame(fn,
                                                          TypeArg(producers[f.pid].type)))]
                   /\ UNCHANGED <<heap, producers>>
              ELSE Evaluated(t, f, Call(fn, ThreadContext,
                                        TypeArg(producers[f.pid].type)))
       /\ outcome' = Ok("argument")
       /\ UNCHANGED <<world, container, providers, scopes>>

\* what the construction by the call f of the thread t leaves behind, r
\* being its result
Constructed(t, f, r) ==
    /\ Len(r.st.heap) <= MaxHeap
    /\ heap' = r.st.heap
    /\ producers' = r.st.prods
    /\ gets' = [gets EXCEPT ![t] =
                  IF r.exc # ""
                  THEN [gets[t] EXCEPT !.exc = r.exc, !.pc = "done", !.stack = <<>>]
                  ELSE At(t, [f EXCEPT !.made = r.val, !.pc = "store"])]
    /\ outcome' = Ok("construct")
    /\ UNCHANGED <<world, container, providers, scopes>>

\* the call on the right-hand side of the assignment, its arguments
\* evaluated: self._type(*args) or self.factory(context, parent_type)
SingletonConstruct ==
    \E t \in 1..Len(gets) :
       /\ Active(t).pc = "construct"
       /\ ~ArgsLeft(Active(t))
       /\ Constructed(t, Active(t),
             IF producers[Active(t).pid].kind = "SingletonTypeProvider"
             THEN New(Active(t).pid, producers[Active(t).pid],
                      Value(ThreadContext, Active(t).vals))
             ELSE InvokeFactory(Active(t).pid, producers[Active(t).pid],
                                ThreadContext, Active(t).parent))

\* the assignment to self._instance / self.instance
SingletonStore ==
    \E t \in 1..Len(gets) :
       /\ Active(t).pc = "store"
       /\ producers' = [producers EXCEPT
                          ![Active(t).pid].instance = Active(t).made,
                          ![Active(t).pid].made = @ + 1]
       /\ gets' = [gets EXCEPT ![t] = At(t, [Active(t) EXCEPT !.pc = "return"])]
       /\ outcome' = Ok("store")
       /\ UNCHANGED <<world, container, heap, providers, scopes>>

\* the thread t after the return of a nested call with the value v: the
\* enclosing call has one more argument
Returned(t, v) ==
    IF Len(gets[t].stack) = 1
    THEN [gets[t] EXCEPT !.stack = <<>>, !.vals = Append(@, v)]
    ELSE [gets[t] EXCEPT
            !.stack = [SubSeq(@, 1, Len(@) - 1)
                         EXCEPT ![Len(@) - 1].vals = Append(@, v)]]

\* `return self._instance`: the cell is read again; the value goes to the
\* enclosing call or, from the call of the key's Producer, to the caller
SingletonReturn ==
    \E t \in 1..Len(gets) :
       /\ Active(t).pc = "return"
       /\ IF gets[t].stack = <<>>
          THEN /\ gets' = [gets EXCEPT
                             ![t].val = producers[ThreadProducer(t)].instance,
                             ![t].fresh = (producers[ThreadProducer(t)].instance
                                             = gets[t].made),
                             ![t].pc = "done"]
               /\ outcome' = [Ok("get") EXCEPT
                                !.ret = producers[ThreadProducer(t)].instance]
          ELSE /\ gets' = [gets EXCEPT ![t] =
                             Returned(t, producers[Active(t).pid].instance)]
               /\ outcome' = Ok("return")
       /\ UNCHANGED <<world, container, heap, producers, providers, scopes>>

\* singletons made by a class, under a base key, by a class with a
\* dependency and by factories, and a registered instance that the class
\* with a dependency may depend on
WorldThreads ==
    World(FALSE,
          {Exact("A", SINGLETON), Bound("IA", "A", SINGLETON),
           Exact("B", SINGLETON), Fact("N", SINGLETON, 1, "new"),
           Fact("A", SINGLETON, 0, "new"), Inst("A", "A")},
          {"A", "IA", "B", "N"}, {}, {})

InitThreads == Start({WorldThreads})

NextThreads ==
    \/ Register
    \/ BuildProvider
    \/ ThreadGet
    \/ SingletonCheck
    \/ SingletonArg
    \/ SingletonConstruct
    \/ SingletonStore
    \/ SingletonReturn

\* threads that activate Singleton keys of one provider
SpecThreads == InitThreads /\ [][NextThreads]_vars

\* the instances that the Producer pid has constructed
MadeBy(pid) == {v \in 1..Len(heap) : heap[v].by = pid}

\* C28: when two threads activate one Singleton key at the same time, in
\* every interleaving of their steps the instance is constructed exactly
\* once and both threads receive it.
C28_ConcurrentSingletonOnce ==
    \A t, u \in 1..Len(gets) :
        (/\ t # u
         /\ gets[t].pc = "done" /\ gets[u].pc = "done"
         /\ gets[t].exc = "" /\ gets[u].exc = ""
         /\ gets[t].provider = gets[u].provider /\ gets[t].key = gets[u].key)
        => /\ Cardinality(MadeBy(ThreadProducer(t))) = 1
           /\ gets[t].val = gets[u].val

\* C28, the case: both threads tested the cell before either stored, each
\* constructed an instance, and they returned different instances
C28_TwoConstructed ==
    \E t, u \in 1..Len(gets) :
        /\ t # u
        /\ gets[t].pc = "done" /\ gets[u].pc = "done"
        /\ gets[t].provider = gets[u].provider /\ gets[t].key = gets[u].key
        /\ gets[t].made # None /\ gets[u].made # None
        /\ gets[t].val = gets[t].made /\ gets[u].val = gets[u].made
        /\ gets[t].val # gets[u].val

(***************************************************************************)
(* The descent of build_provider, step by step.  A call of build_provider  *)
(* that has not returned is the record `outcome` with three more fields:   *)
(* i, the registration the loop over self._map is at, al, the alias sets   *)
(* as the call has left them, and stack, the nested calls of               *)
(* DynamicResolver.__call__, each with the type it compiles and the        *)
(* parameter it is at.  The registrations do not change while the call     *)
(* runs, so what it returns when no nested call raises is known when it    *)
(* starts: the record holds it as built, and the call hands it over when   *)
(* the loop is over.  chain is context.dynamic_chain.                      *)
(***************************************************************************)
Building == "stack" \in DOMAIN outcome

BuildState(i, al, stack, built, chain) ==
    [op |-> "build_provider", exc |-> "", param |-> <<>>, type |-> "",
     ret |-> None, i |-> i, al |-> al, stack |-> stack, built |-> built,
     chain |-> chain]

\* a call of DynamicResolver.__call__ at its first parameter
Frame(type) == [type |-> type, next |-> 1]

\* reg(context) for a Dynamic resolver: one more nested call
Push(stack, type) == Append(stack, Frame(type))

\* the innermost call goes on with its next parameter
Advance(stack) == [stack EXCEPT ![Len(stack)].next = @ + 1]

\* the call of build_provider raises
BuildRaise(exc, p, t, al) ==
    /\ outcome' = Raised("build_provider", exc, p, t)
    /\ aliases' = al
    /\ UNCHANGED <<world, strict, cmap, exact_aliases, cprovider, heap,
                   producers, providers, scopes, gets>>

\* the call of build_provider goes on
BuildGoOn(i, al, stack, chain) ==
    /\ outcome' = BuildState(i, al, stack, outcome.built, chain)
    /\ UNCHANGED <<world, container, heap, producers, providers, scopes, gets>>

\* container.build_provider() is called
BuildBegin ==
    /\ ~Building
    /\ Len(providers) < world.builds
    /\ \E b \in {build_provider(first) : first \in Firsts(BuiltTypes)} :
          outcome' = BuildState(1, aliases, <<>>, b, <<>>)
    /\ UNCHANGED <<world, container, heap, producers, providers, scopes, gets>>

\* the body of the loop over self._map.items() for the i-th registration:
\* for a Dynamic resolver the chain is cleared, and the resolver is called,
\* which appends its type to the chain
BuildIterate ==
    /\ Building /\ outcome.stack = <<>> /\ outcome.i <= Len(cmap)
    /\ IF cmap[outcome.i].value.kind = "DynamicResolver"
       THEN BuildGoOn(outcome.i, outcome.al,
                      Push(<<>>, cmap[outcome.i].value.concrete_type),
                      <<cmap[outcome.i].value.concrete_type>>)
       ELSE BuildGoOn(outcome.i + 1, outcome.al, <<>>, outcome.chain)

\* the body of the loop of _get_resolvers_for_parameters for one parameter
\* of the innermost call, pt being its type: a key that the loop over
\* self._map has compiled is taken from context.resolved; another Dynamic
\* key is compiled by a nested call, which raises RecursionError at the
\* limit of the interpreter, and the innermost `except RecursionError`
\* turns it into CircularDependencyException(chain[0], ...)
BuildParameterOf(top, pt) ==
    IF pt.exc # ""
    THEN BuildRaise(pt.exc, ClassTable[top.type].params[top.next].name, top.type,
                    pt.ctx.aliases)
    ELSE IF ~Has(cmap, pt.type)
    THEN BuildRaise("CannotResolveParameterException",
                    ClassTable[top.type].params[top.next].name, top.type,
                    pt.ctx.aliases)
    ELSE IF \/ pt.type \in {cmap[k].key : k \in 1..(outcome.i - 1)}
            \/ Lookup(cmap, pt.type).kind # "DynamicResolver"
    THEN BuildGoOn(outcome.i, pt.ctx.aliases, Advance(outcome.stack),
                   outcome.chain)
    ELSE IF Len(outcome.stack) >= RecursionLimit
    THEN BuildRaise("CircularDependencyException", <<>>, outcome.stack[1].type,
                    pt.ctx.aliases)
    ELSE BuildGoOn(outcome.i, pt.ctx.aliases,
                   Push(outcome.stack, Lookup(cmap, pt.type).concrete_type),
                   Append(outcome.chain, Lookup(cmap, pt.type).concrete_type))

BuildParameter ==
    /\ Building /\ outcome.stack # <<>>
    /\ outcome.stack[Len(outcome.stack)].next
          <= Len(ClassTable[outcome.stack[Len(outcome.stack)].type].params)
    /\ BuildParameterOf(
          outcome.stack[Len(outcome.stack)],
          ParamType(outcome.stack[Len(outcome.stack)].type,
                    ClassTable[outcome.stack[Len(outcome.stack)].type]
                       .params[outcome.stack[Len(outcome.stack)].next],
                    [aliases |-> outcome.al]))

\* a return after which the loop over self._map takes the same registration
\* again
BuildReturnSame ==
    /\ Building /\ outcome.stack # <<>>
    /\ outcome.stack[Len(outcome.stack)].next
          > Len(ClassTable[outcome.stack[Len(outcome.stack)].type].params)
    /\ IF Len(outcome.stack) = 1
       THEN BuildGoOn(outcome.i, outcome.al, <<>>, outcome.chain)
       ELSE BuildGoOn(outcome.i, outcome.al,
                      Advance(SubSeq(outcome.stack, 1, Len(outcome.stack) - 1)),
                      outcome.chain)

\* the innermost call returns its provider: to the call that asked for it,
\* or to the loop over self._map, which goes on with the next registration
BuildReturn ==
    /\ Building /\ outcome.stack # <<>>
    /\ outcome.stack[Len(outcome.stack)].next
          > Len(ClassTable[outcome.stack[Len(outcome.stack)].type].params)
    /\ IF Len(outcome.stack) = 1
       THEN BuildGoOn(outcome.i + 1, outcome.al, <<>>, outcome.chain)
       ELSE BuildGoOn(outcome.i, outcome.al,
                      Advance(SubSeq(outcome.stack, 1, Len(outcome.stack) - 1)),
                      outcome.chain)

\* the loop over self._map is over: the aliases are added and the provider
\* is returned, or the call raises for an alias
BuildFinish ==
    /\ Building /\ outcome.stack = <<>> /\ outcome.i > Len(cmap)
    /\ Built(outcome.built)
    /\ UNCHANGED <<world, strict, cmap, exact_aliases, cprovider, heap, scopes, gets>>

\* a step of a call of build_provider that has not returned
BuildStep ==
    \/ BuildIterate
    \/ BuildParameter
    \/ BuildReturn
    \/ BuildFinish

\* registrations are made while no call of build_provider is running
RegisterThenBuild ==
    /\ ~Building
    /\ Register

\* an acyclic graph under a base key, cycles of one and two types, a cycle
\* that holds a key registered by a factory or as an instance, and a
\* dependency that may be missing
WorldDescent ==
    World(FALSE,
          {Bound("IA", "A", SCOPED), Exact("D", TRANSIENT),
           Exact("K", SINGLETON), Exact("J", SCOPED), Exact("G", TRANSIENT),
           Fact("J", TRANSIENT, 0, "new"), Inst("G", "G")},
          {}, {}, {})

\* a type that two dependents share, which may be registered after them
WorldShared ==
    World(FALSE,
          {Exact("A", SINGLETON), Exact("B", TRANSIENT), Exact("C", TRANSIENT),
           Fact("N", TRANSIENT, 0, "new")},
          {}, {}, {})

InitBuild == Start({WorldDescent, WorldShared})

NextBuild ==
    \/ RegisterThenBuild
    \/ BuildBegin
    \/ BuildStep

\* a call of build_provider runs on until it returns or raises: the
\* interpreter executes the next step of a running call
SpecBuild == InitBuild /\ [][NextBuild]_vars /\ WF_vars(BuildStep)

\* a call of build_provider has returned or raised
BuildEnded == outcome.op = "build_provider" /\ ~Building

\* the statement of C29 as the specification gives it: build_provider
\* terminates on every configuration, it returns a provider or raises, and
\* on a configuration with a cycle it stops with
\* CircularDependencyException.
C29_BuildTerminatesCircular ==
    /\ Building ~> BuildEnded
    /\ [](BuildEnded /\ HasCycle => outcome.exc = "CircularDependencyException")

\* C29, amended: build_provider terminates on every configuration, it
\* returns a provider or raises, and on a configuration with a cycle it
\* stops with an exception, which is CircularDependencyException when
\* every dependency of every registered type resolves to a registered key.
C29_BuildTerminates ==
    /\ Building ~> BuildEnded
    /\ [](BuildEnded /\ HasCycle
            => /\ outcome.exc # "" /\ outcome.ret = None
               /\ AllResolve => outcome.exc = "CircularDependencyException")

\* C29, the case: the descent into a cycle of two types was stopped at the
\* limit with CircularDependencyException
C29_DescentStopped ==
    /\ BuildEnded /\ HasCycle /\ AllResolve
    /\ outcome.exc = "CircularDependencyException"
    /\ Has(cmap, "J") /\ Lookup(cmap, "J").kind = "DynamicResolver"
    /\ Has(cmap, "G") /\ Lookup(cmap, "G").kind = "DynamicResolver"

(***************************************************************************)
(* Services.set.  The outcome of a call of set has three more fields: the  *)
(* provider it was called on, the value it was given and before, the map   *)
(* of the provider as the call found it.                                   *)
(***************************************************************************)
\* a call provider.set(key, value) for a type key, or provider.set(name,
\* value) for a string key (key is "" then), the value being an instance of
\* cls
SetCall(key, name, cls) == [key |-> key, name |-> name, cls |-> cls]

\* the closure `resolver` of Services.set, which returns the value
SetResolver(value) == Producer("resolver", "", <<>>, value, NoFactory)

SetOutcome(exc, call, provider, value) ==
    [op |-> "set", exc |-> exc, param |-> call.name, type |-> call.key,
     ret |-> None, provider |-> provider, value |-> value,
     before |-> providers[provider]]

\* `new_type in self._map`
KeyPresent(services, call) ==
    IF call.key = "" THEN call.name \in DOMAIN services.names
    ELSE call.key \in DOMAIN services.types

\* `not isinstance(new_type, str) and type_name in self._map`
ClassNamePresent(services, call) ==
    call.key # "" /\ class_name(call.key) \in DOMAIN services.names

\* the two assignments to self._map at the end of Services.set
WithResolver(services, call, resolver) ==
    IF call.key = ""
    THEN Services(services.types, DictSet(services.names, call.name, resolver))
    ELSE Services(DictSet(services.types, call.key, resolver),
                  DictSet(services.names, class_name(call.key), resolver))

\* Services.set(new_type, value), the value being the object `value` of the
\* heap h: the exception is constructed from self._map[new_type], which is
\* a KeyError when only the class name is a key of the map
ServicesSetOf(provider, call, value, h) ==
    /\ heap' = h
    /\ IF KeyPresent(providers[provider], call)
       THEN /\ outcome' = SetOutcome("OverridingServiceException", call,
                                     provider, value)
            /\ UNCHANGED <<producers, providers>>
       ELSE IF ClassNamePresent(providers[provider], call)
       THEN /\ outcome' = SetOutcome("KeyError", call, provider, value)
            /\ UNCHANGED <<producers, providers>>
       ELSE /\ producers' = Append(producers, SetResolver(value))
            /\ providers' = [providers EXCEPT ![provider] =
                               WithResolver(@, call, Len(producers) + 1)]
            /\ outcome' = SetOutcome("", call, provider, value)
    /\ UNCHANGED <<world, container, scopes, gets>>

\* provider.set(key, value) and provider[key] = value, with an instance
\* that the caller holds, or one that it constructs for the call when it
\* holds none of the class (held is None)
ServicesSet ==
    \E provider \in 1..Len(providers), call \in world.sets,
       held \in 0..Len(heap) :
       IF held = None
       THEN /\ Len(heap) < MaxHeap
            /\ \A v \in 1..Len(heap) : heap[v].cls # call.cls
            /\ ServicesSetOf(provider, call, Len(heap) + 1,
                             Append(heap, NewInstance(call.cls,
                                                      NoneFields(call.cls),
                                                      NoArg, None)))
       ELSE /\ heap[held].cls = call.cls
            /\ ServicesSetOf(provider, call, held, heap)

\* a provider of a registered class and a registered instance, on which the
\* application sets a class that is not registered, by its type and by its
\* name, and a class that is registered; it asks for the class that it sets,
\* also with a scope that it created with a value for it
WorldSet ==
    [World(FALSE,
           {Exact("A", TRANSIENT), Inst("E", "E")},
           {"B"}, {<<"B">>}, {"B"})
     EXCEPT !.sets = {SetCall("B", <<>>, "B"), SetCall("", <<"B">>, "B"),
                      SetCall("A", <<>>, "A")}]

InitSets == Start({WorldSet})

NextSets ==
    \/ Register
    \/ BuildProvider
    \/ NewScope
    \/ Get
    \/ GetByName
    \/ ServicesSet

\* applications that add services to a provider
SpecSets == InitSets /\ [][NextSets]_vars

\* the entry of the map of the provider of the get i under the key or the
\* name that the get asked for, or None
EntryAsked(i) ==
    IF gets[i].key # ""
    THEN ProducerAsked(i)
    ELSE IF gets[i].name \in DOMAIN providers[gets[i].provider].names
    THEN providers[gets[i].provider].names[gets[i].name]
    ELSE None

\* the call of set that has just returned found its key, or the class
\* name of its type key, in the map
FoundPresent ==
    \/ IF outcome.type = "" THEN outcome.param \in DOMAIN outcome.before.names
       ELSE outcome.type \in DOMAIN outcome.before.types
    \/ outcome.type # "" /\ class_name(outcome.type) \in DOMAIN outcome.before.names

\* the map holds, under the key of the call of set that has just returned
\* and under the class name of a type key, a resolver of the value
HoldsValue ==
    LET now == providers[outcome.provider]
    IN  IF outcome.type = ""
        THEN /\ outcome.param \in DOMAIN now.names
             /\ producers[now.names[outcome.param]].kind = "resolver"
             /\ producers[now.names[outcome.param]].instance = outcome.value
        ELSE /\ outcome.type \in DOMAIN now.types
             /\ class_name(outcome.type) \in DOMAIN now.names
             /\ now.names[class_name(outcome.type)] = now.types[outcome.type]
             /\ producers[now.types[outcome.type]].kind = "resolver"
             /\ producers[now.types[outcome.type]].instance = outcome.value

\* C30: Services.set(key, value) fails with OverridingServiceException
\* whenever the key is already present in the provider or, for a type key,
\* its class name is already present, and leaves the map unchanged;
\* otherwise it adds the value under the key and, for a type key, under its
\* class name, and a later get of either (with no scope, or with a scope that
\* was not created holding a value for the key) returns that value.
C30_SetFailsOrAdds ==
    /\ outcome.op = "set"
       => IF FoundPresent
          THEN /\ outcome.exc = "OverridingServiceException"
               /\ providers[outcome.provider] = outcome.before
          ELSE /\ outcome.exc = ""
               /\ HoldsValue
    /\ (/\ outcome.op = "get" /\ Len(gets) > 0
        /\ EntryAsked(Len(gets)) # None /\ gets[Len(gets)].cached = None)
       => (producers[EntryAsked(Len(gets))].kind = "resolver"
           => /\ gets[Len(gets)].exc = ""
              /\ gets[Len(gets)].val = producers[EntryAsked(Len(gets))].instance)

\* C30, the case: set was called with a type key that is not in the map
\* while its class name is, and it raised KeyError
C30_ClassNameOnlyPresent ==
    /\ outcome.op = "set" /\ outcome.type # ""
    /\ outcome.type \notin DOMAIN outcome.before.types
    /\ class_name(outcome.type) \in DOMAIN outcome.before.names
    /\ outcome.exc = "KeyError"
    /\ providers[outcome.provider] = outcome.before

(***************************************************************************)
(* The provider that the container keeps.                                  *)
(***************************************************************************)
\* what the first use of Container.provider and the get by name that
\* follows leave behind
ProvidedByName(services, name, scope, ctx, r) ==
    /\ Len(r.st.heap) <= MaxHeap
    /\ aliases' = ctx.aliases
    /\ providers' = Append(providers, services)
    /\ cprovider' = Len(providers) + 1
    /\ heap' = r.st.heap
    /\ producers' = r.st.prods
    /\ scopes' = IF scope = None \/ scopes[scope].none THEN scopes
                 ELSE [scopes EXCEPT ![scope].scoped_services = r.st.cache]
    /\ gets' = Append(gets,
                      [provider |-> Len(providers) + 1, key |-> "",
                       name |-> name, scope |-> scope, default |-> Ellipsis,
                       cached |-> None, val |-> r.val, exc |-> r.exc,
                       fresh |-> r.val > Len(heap),
                       live |-> scope = None \/ scopes[scope].live,
                       uses |-> IF scope = None THEN 0 ELSE scopes[scope].uses])
    /\ outcome' = [Raised("get", r.exc, name, "") EXCEPT !.ret = r.val]
    /\ UNCHANGED <<world, strict, cmap, exact_aliases>>

\* Container.provider when the container holds no provider, followed by
\* the get by name of Container.resolve; b is what build_provider made
ProviderThenGetByName(name, scope, b) ==
    IF b.exc.exc # ""
    THEN /\ aliases' = b.ctx.aliases
         /\ outcome' = b.exc
         /\ UNCHANGED <<world, strict, cmap, exact_aliases, cprovider, heap,
                        producers, providers, scopes, gets>>
    ELSE ProvidedByName(Services(b.types, b.names), name, scope, b.ctx,
                        IF scope # None /\ scopes[scope].none
                        THEN Throw([heap |-> heap, prods |-> b.ctx.prods,
                                    cache |-> EmptyDict, class |-> ClassOf(scope)],
                                   "AttributeError")
                        ELSE ServicesGetByNameIn(
                                Services(b.types, b.names),
                                [heap |-> heap, prods |-> b.ctx.prods,
                                 cache |-> IF scope = None THEN EmptyDict
                                           ELSE scopes[scope].scoped_services,
                                 class |-> ClassOf(scope)],
                                name))

\* container.resolve(name, scope), name being a string
ResolveByName ==
    /\ Len(gets) < MaxGets
    /\ \E name \in world.names, scope \in {None} \cup CallerScopes :
          IF cprovider # None
          THEN Got(cprovider, "", name, scope, Ellipsis,
                   ServicesGetByName(cprovider, name, scope, Ellipsis))
          ELSE /\ Len(providers) < world.builds
               /\ \E first \in Firsts(BuiltTypes) :
                     ProviderThenGetByName(name, scope, build_provider(first))

\* a container that is asked to resolve types and names before and after
\* registrations and alias calls
WorldStale ==
    [World(FALSE,
           {Exact("A", SINGLETON), Exact("A", SCOPED),
            Alias(<<"x">>, "A"), Exactly(<<"y">>, "A", FALSE)},
           {"A", "B"}, {<<"x">>, <<"y">>}, {})
     EXCEPT !.builds = MaxRebuilds]

InitResolve == Start({WorldStale})

NextResolve ==
    \/ Register
    \/ SetAliases
    \/ Provider
    \/ BuildProvider
    \/ NewScope
    \/ Dispose
    \/ Get
    \/ Resolve
    \/ ResolveByName

\* applications that use the container as the provider
SpecResolve == InitResolve /\ [][NextResolve]_vars

\* the name is an alias of the container whose target is registered: an
\* exact alias, or an inferred alias with one candidate
AliasConfigured(name) ==
    \/ /\ Has(exact_aliases, name)
       /\ Has(cmap, Lookup(exact_aliases, name))
    \/ /\ ~Has(exact_aliases, name) /\ Has(aliases, name)
       /\ Cardinality(Lookup(aliases, name)) = 1
       /\ \A t \in Lookup(aliases, name) : Has(cmap, t)

\* C31: Container.resolve answers from the current configuration of the
\* container: a resolve of a registered key, or of a name that is an
\* alias of a registered key, made after any registration or alias call,
\* finds the key or the name in the provider that the container keeps.
C31_ResolveSeesConfiguration ==
    (/\ outcome.op = "get" /\ Len(gets) > 0
     /\ gets[Len(gets)].provider = cprovider)
    => /\ (gets[Len(gets)].key # "" /\ Has(cmap, gets[Len(gets)].key))
          => gets[Len(gets)].exc # "CannotResolveTypeException"
       /\ (gets[Len(gets)].name # <<>> /\ AliasConfigured(gets[Len(gets)].name))
          => gets[Len(gets)].exc # "CannotResolveTypeException"

\* C31, the case: an alias was added after the container had built its
\* provider, the provider was kept, and a resolve of the name failed
C31_AliasNotSeen ==
    /\ outcome.op = "get" /\ Len(gets) = 2
    /\ gets[1].provider = cprovider /\ gets[2].provider = cprovider
    /\ gets[2].name # <<>> /\ AliasConfigured(gets[2].name)
    /\ gets[2].name \notin DOMAIN providers[cprovider].names
    /\ gets[2].exc = "CannotResolveTypeException"

(***************************************************************************)
(* What a build leaves of the container.                                   *)
(***************************************************************************)
\* C32: build_provider does not modify the container: when it returns or
\* raises, the registrations, the inferred aliases and the exact aliases
\* are as they were before the call, so that a registration or alias call
\* that would have succeeded before a failed build succeeds after it.
C32_BuildLeavesContainer ==
    [][outcome'.op = "build_provider"
       => /\ cmap' = cmap
          /\ aliases' = aliases
          /\ exact_aliases' = exact_aliases]_vars

\* C32, the case: add_alias was refused for a name that no call had made
\* an alias: a build had left an empty set of candidates under it
C32_AliasRefusedAfterBuild ==
    /\ outcome.op = "add_alias" /\ outcome.exc = "AliasAlreadyDefined"
    /\ ~Has(exact_aliases, outcome.param)
    /\ Has(aliases, outcome.param)
    /\ Lookup(aliases, outcome.param) = {}

(***************************************************************************)
(* The mapping given to an invocation.                                     *)
(***************************************************************************)
\* the mapping of the caller after the invocation that has just ended:
\* `scoped_services or {}` makes a mapping that is not empty the cache of
\* the scope of the invocation, which the getters write and dispose clears
GivenAfter ==
    IF outcome.given = EmptyDict THEN outcome.given
    ELSE outcome.scope.scoped_services

\* C33: an invocation of exec or of an executor with a mapping of values
\* leaves the mapping unchanged: when the invocation has ended the mapping
\* holds the entries it was given, no more and no less.
C33_GivenMappingKept ==
    outcome.op = "exec" => GivenAfter = outcome.given

\* C33, the case: an invocation that was given a value for a key returned,
\* and the mapping is empty
C33_GivenMappingCleared ==
    /\ outcome.op = "exec" /\ outcome.exc = ""
    /\ outcome.given # EmptyDict
    /\ GivenAfter = EmptyDict

(***************************************************************************)
(* Scoped instances and the scopes of other activations.                   *)
(***************************************************************************)
\* the gets i and j were made with different scopes: two scope objects, or
\* no scope for one of them, which is a scope of its own (scopes created
\* holding a value are set aside: what they hold is the caller's choice)
OtherScope(i, j) ==
    /\ i # j /\ ~SameScope(i, j)
    /\ gets[i].provider = gets[j].provider
    /\ gets[i].exc = "" /\ gets[j].exc = ""
    /\ ~Seeded(i) /\ ~Seeded(j)

\* the statement of C34 as the specification gives it: an instance made by
\* a Scoped Producer in an activation with one scope is not returned by,
\* nor reachable from the object returned by, an activation with another
\* scope, whatever the lifetimes of the dependents of the Scoped key.
C34_ScopedNeverLeaves ==
    \A i, j \in 1..Len(gets) :
        OtherScope(i, j) => ScopedMade(i, TRUE) \cap ScopedMade(j, TRUE) = {}

\* C34, amended: an instance made by a Scoped Producer in an activation
\* with one scope is not returned by, nor reachable through Transient and
\* Scoped dependents from the object returned by, an activation with
\* another scope.
C34_ScopedLeavesBySingletonsOnly ==
    \A i, j \in 1..Len(gets) :
        OtherScope(i, j) => ScopedMade(i, FALSE) \cap ScopedMade(j, FALSE) = {}

\* C34, the case: two activations with different scopes returned objects
\* that hold instances of a Scoped key
C34_TwoScopesActivated ==
    \E i, j \in 1..Len(gets) :
        /\ OtherScope(i, j) /\ gets[i].scope # None
        /\ gets[i].val # gets[j].val
        /\ ScopedMade(i, FALSE) \ {gets[i].val} # {}
        /\ ScopedMade(j, FALSE) \ {gets[j].val} # {}

(***************************************************************************)
(* The order of the registrations.                                         *)
(***************************************************************************)
\* a build of the configuration can succeed, whatever the order of its
\* registrations: no cycle, every dependency resolves and, unless the
\* container is strict, every set of candidates is empty or has a
\* registered member and every exact alias has a registered target
CanBuild ==
    /\ ~HasCycle /\ AllResolve
    /\ \/ strict
       \/ /\ \A n \in 1..Len(aliases) :
                IF aliases[n].value = {} THEN Len(cmap) > 0
                ELSE aliases[n].value \cap Keys(cmap) # {}
          /\ \A n \in 1..Len(exact_aliases) : Has(cmap, exact_aliases[n].value)

\* a build of the configuration can fail, whatever the order of its
\* registrations
CanFail ==
    \/ HasCycle \/ ~AllResolve
    \/ /\ ~strict
       /\ \/ \E n \in 1..Len(aliases) :
                IF aliases[n].value = {} THEN Len(cmap) = 0
                ELSE ~(aliases[n].value \subseteq Keys(cmap))
          \/ \E n \in 1..Len(exact_aliases) : ~Has(cmap, exact_aliases[n].value)

\* C35: for a fixed set of registrations and aliases, whether
\* build_provider succeeds or fails does not depend on the order in which
\* the keys were registered: it succeeds only for a configuration that can
\* be built and fails only for one that can fail, both told from the
\* registrations and the alias tables as sets.
C35_BuildWhateverOrder ==
    JustBuilt
    => /\ outcome.exc = "" => CanBuild
       /\ outcome.exc # "" => CanFail

\* C35, the case: a provider was built from registrations made in an order
\* in which a dependent comes before its dependency, and one in which it
\* comes after another
C35_DependentFirst ==
    /\ JustBuilt /\ outcome.exc = "" /\ Len(cmap) = MaxRegs
    /\ \E i, j \in 1..Len(cmap) :
          /\ i < j
          /\ cmap[i].key \in DynamicKeys
          /\ cmap[j].key \in DependsOn(cmap[i].key)
    /\ \E i, j \in 1..Len(cmap) :
          /\ i > j
          /\ cmap[i].key \in DynamicKeys
          /\ cmap[j].key \in DependsOn(cmap[i].key)

(***************************************************************************)
(* The names added with add_alias.                                         *)
(***************************************************************************)
\* the names under which _bind files a key
BoundNames(key) ==
    {class_name(key), lower(class_name(key)),
     to_standard_param_name(class_name(key))}

\* the name was added with add_alias: its entry holds a key that _bind does
\* not file under this name
AliasAdded(name) ==
    /\ Has(aliases, name)
    /\ \E key \in Lookup(aliases, name) : name \notin BoundNames(key)

\* C36: a name added with add_alias stays unambiguous: in every state
\* reached after a successful add_alias(name, key), whatever registrations
\* follow, the entry of the name in the inferred aliases has exactly one
\* candidate.
C36_AliasStaysUnambiguous ==
    \A n \in 1..Len(aliases) :
        AliasAdded(aliases[n].key) => Cardinality(aliases[n].value) = 1

\* C36, the case: a key was registered after add_alias gave to a name that
\* _bind derives from it another key, and the name has two candidates
C36_AliasMadeAmbiguous ==
    \E n \in 1..Len(aliases) :
        /\ AliasAdded(aliases[n].key)
        /\ Cardinality(aliases[n].value) = 2
        /\ \E key \in aliases[n].value :
              aliases[n].key \in BoundNames(key) /\ Has(cmap, key)

(***************************************************************************)
(* The dynamic chain of a build pass.                                      *)
(***************************************************************************)
\* the types that nested calls of DynamicResolver.__call__ are compiling,
\* outermost first
InProgress == [k \in 1..Len(outcome.stack) |-> outcome.stack[k].type]

\* the chain holds a type more than once
ChainRepeats ==
    \E k, l \in 1..Len(outcome.chain) : k # l /\ outcome.chain[k] = outcome.chain[l]

\* the loop over self._map starts a Dynamic registration
StartsDynamic ==
    /\ Building /\ outcome.stack = <<>>
    /\ "stack" \in DOMAIN outcome' /\ outcome'.stack # <<>>

\* C37: during a build pass the dynamic chain is the stack of in-progress
\* targets: it is emptied when a top-level Dynamic registration starts, so
\* that it holds that registration's type alone; a type is on it exactly
\* while that type is being compiled; and it holds a type more than once
\* only if the configuration has a dependency cycle.
C37_ChainIsStack ==
    /\ [][StartsDynamic => outcome'.chain = <<outcome'.stack[1].type>>]_vars
    /\ [](Building => /\ outcome.chain = InProgress
                      /\ ChainRepeats => HasCycle)

\* C37, the case: below one registration a nested call compiled a type that
\* two dependents share and returned, the type is on the chain a second
\* time for the other dependent, and the configuration has no cycle
C37_SharedTypeTwice ==
    /\ Building /\ ~HasCycle
    /\ ChainRepeats
    /\ Len(outcome.stack) < Len(outcome.chain)
    /\ outcome.chain[1] = outcome.stack[1].type

=============================================================================
